---- MODULE Spec2Model ----
(***************************************************************************)
(* Model of bevy_console: typed console variables (ConVar), the registry   *)
(* and handler store, the tokenizer, the access gate and the three-stage   *)
(* execution pipeline (parse_console_input, execute_pending_commands,      *)
(* send_pending_outputs).                                                  *)
(*                                                                         *)
(* Text is a sequence of atoms.  An atom is a TLA+ string standing for one *)
(* character (" ", ";", a quote, a backslash, "/", a digit, "-") or for an *)
(* indivisible run of ordinary letters such as "sv_cheats".  Offsets are   *)
(* 0-based atom offsets, as byte offsets are in the source.                *)
(***************************************************************************)
EXTENDS Integers, Sequences, FiniteSets, TLC

(***************************************************************************)
(* Option values: None is the empty tuple, Some(x) the 1-tuple.            *)
(***************************************************************************)
None == <<>>
Some(x) == <<x>>
IsSome(o) == o # <<>>
Unwrap(o) == o[1]

(***************************************************************************)
(* Text helpers                                                            *)
(***************************************************************************)
DQ == "\""
SQ == "'"
BS == "\\"

IsWhitespace(c) == c \in {" ", "\t", "\r", "\n"}

\* input[a..b] with 0-based half-open offsets
Slice(input, a, b) == SubSeq(input, a + 1, b)

RECURSIVE TrimStart(_)
TrimStart(s) ==
    IF s # <<>> /\ IsWhitespace(Head(s)) THEN TrimStart(Tail(s)) ELSE s

RECURSIVE TrimEnd(_)
TrimEnd(s) ==
    IF s # <<>> /\ IsWhitespace(s[Len(s)])
    THEN TrimEnd(SubSeq(s, 1, Len(s) - 1))
    ELSE s

Trim(s) == TrimEnd(TrimStart(s))

\* str::find("//"): 0-based offset of the first "//", or None
FindComment(s) ==
    LET hits == {k \in 0..(Len(s) - 2) : s[k + 1] = "/" /\ s[k + 2] = "/"}
    IN  IF hits = {} THEN None
        ELSE Some(CHOOSE k \in hits : \A j \in hits : k <= j)

\* [&str]::join(sep)
RECURSIVE Join(_, _)
Join(parts, sep) ==
    IF parts = <<>> THEN <<>>
    ELSE IF Len(parts) = 1 THEN parts[1]
    ELSE parts[1] \o sep \o Join(Tail(parts), sep)

(***************************************************************************)
(* Tokenizer (core/tokenizer.rs)                                           *)
(***************************************************************************)
Ok(v) == [ok |-> TRUE, val |-> v]
ErrEmptyInput == [ok |-> FALSE, err |-> "EmptyInput", position |-> 0]
ErrUnterminated(p) == [ok |-> FALSE, err |-> "UnterminatedString", position |-> p]

\* The inner `while let Some((i, ch)) = chars.next()` loop of a quoted run.
\* k is the offset of the next character, end the running end offset.
\* Result: <<found_end, end, offset after the loop>>.
RECURSIVE QuotedRun(_, _, _, _)
QuotedRun(input, q, k, end) ==
    IF k >= Len(input) THEN <<FALSE, end, k>>
    ELSE LET ch == input[k + 1] IN
         IF ch = q THEN <<TRUE, end, k + 1>>
         ELSE IF ch = BS
              THEN IF k + 1 < Len(input)
                   THEN QuotedRun(input, q, k + 2, k + 2)
                   ELSE QuotedRun(input, q, k + 1, end)
              ELSE QuotedRun(input, q, k + 1, k + 1)

\* The `while let Some(&(i, ch)) = chars.peek()` loop of a regular token.
RECURSIVE RegularRun(_, _)
RegularRun(input, end) ==
    IF end >= Len(input) THEN end
    ELSE LET ch == input[end + 1] IN
         IF IsWhitespace(ch) \/ ch = DQ \/ ch = SQ THEN end
         ELSE RegularRun(input, end + 1)

RECURSIVE TokenizeFrom(_, _, _)
TokenizeFrom(input, start, tokens) ==
    IF start >= Len(input) THEN Ok(tokens)
    ELSE LET c == input[start + 1] IN
         IF IsWhitespace(c) THEN TokenizeFrom(input, start + 1, tokens)
         ELSE IF c = DQ \/ c = SQ
              THEN LET content_start == start + 1
                       r == QuotedRun(input, c, content_start, content_start)
                   IN  IF ~r[1] THEN ErrUnterminated(start)
                       ELSE TokenizeFrom(input, r[3],
                                Append(tokens, Slice(input, content_start, r[2])))
              ELSE LET end == RegularRun(input, start + 1)
                   IN  TokenizeFrom(input, end,
                                Append(tokens, Slice(input, start, end)))

tokenize_string(input) == TokenizeFrom(input, 0, <<>>)

\* Variant: the command is repeated as the first argument
tokenize_keeping_command(input) ==
    LET t0 == Trim(input)
        cp == FindComment(t0)
        trimmed == IF IsSome(cp) THEN Trim(Slice(t0, 0, Unwrap(cp))) ELSE t0
    IN  IF trimmed = <<>> THEN ErrEmptyInput
        ELSE LET r == tokenize_string(trimmed) IN
             IF ~r.ok THEN r
             ELSE IF r.val = <<>> THEN ErrEmptyInput
             ELSE Ok([command |-> r.val[1], args |-> r.val, raw |-> input])

tokenize(input) ==
    LET t0 == Trim(input)
        cp == FindComment(t0)
        trimmed == IF IsSome(cp) THEN Trim(Slice(t0, 0, Unwrap(cp))) ELSE t0
    IN  IF trimmed = <<>> THEN ErrEmptyInput
        ELSE LET r == tokenize_string(trimmed) IN
             IF ~r.ok THEN r
             ELSE IF r.val = <<>> THEN ErrEmptyInput
             ELSE Ok([command |-> r.val[1], args |-> Tail(r.val), raw |-> input])

\* Variant: the piece is kept untrimmed
PushTrimmed_untrimmed(commands, piece) ==
    IF Trim(piece) # <<>> THEN Append(commands, piece) ELSE commands

PushTrimmed(commands, piece) ==
    IF Trim(piece) # <<>> THEN Append(commands, Trim(piece)) ELSE commands

\* split_commands: st = [start, dq, sq, bs, commands] threaded over offsets i.

RECURSIVE SplitFrom(_, _, _)
SplitFrom(input, i, st) ==
    IF i >= Len(input)
    THEN PushTrimmed(st.commands, Slice(input, st.start, Len(input)))
    ELSE LET c == input[i + 1] IN
         IF c = BS
         THEN SplitFrom(input, i + 1, [st EXCEPT !.bs = st.bs + 1])
         ELSE IF c = DQ /\ ~st.sq
         THEN SplitFrom(input, i + 1,
                [st EXCEPT !.dq = IF st.bs % 2 = 0 THEN ~st.dq ELSE st.dq,
                           !.bs = 0])
         ELSE IF c = SQ /\ ~st.dq
         THEN SplitFrom(input, i + 1,
                [st EXCEPT !.sq = IF st.bs % 2 = 0 THEN ~st.sq ELSE st.sq,
                           !.bs = 0])
         ELSE IF c = ";" /\ ~st.dq /\ ~st.sq
         THEN SplitFrom(input, i + 1,
                [st EXCEPT !.commands =
                               PushTrimmed(st.commands, Slice(input, st.start, i)),
                           !.start = i + 1,
                           !.bs = 0])
         ELSE SplitFrom(input, i + 1, [st EXCEPT !.bs = 0])

split_commands(input) ==
    SplitFrom(input, 0,
        [start |-> 0, dq |-> FALSE, sq |-> FALSE, bs |-> 0, commands |-> <<>>])

(***************************************************************************)
(* ConVarFlags, PermissionLevel (core/convar.rs, core/permissions.rs)      *)
(***************************************************************************)
ARCHIVE == "ARCHIVE"
CHEAT == "CHEAT"
READ_ONLY == "READ_ONLY"
HIDDEN == "HIDDEN"
NOTIFY == "NOTIFY"
DEV_ONLY == "DEV_ONLY"
FlagsNONE == {}

\* ConVarFlags::contains: (self & other) == other
FlagsContains(self, other) == other \subseteq self

User == 0
Admin == 1
Server == 2
PermissionLevel == {User, Admin, Server}

PermissionName(level) ==
    CASE level = User -> "User"
      [] level = Admin -> "Admin"
      [] level = Server -> "Server"

\* Variant: strict comparison
has_permission_strict(current_level, required) == current_level > required

\* ConsolePermissions::has_permission: current_level >= required
has_permission(current_level, required) == current_level >= required

(***************************************************************************)
(* ConVarValue: parse / format / clamp per type (core/convar.rs)           *)
(***************************************************************************)
I32_MIN == (0 - 2147483647) - 1
I32_MAX == 2147483647

Digits == <<"0", "1", "2", "3", "4", "5", "6", "7", "8", "9">>
IsDigit(c) == \E d \in 1..10 : Digits[d] = c
DigitVal(c) == (CHOOSE d \in 1..10 : Digits[d] = c) - 1

\* The digit loop of from_str: the value is accumulated with checked_mul
\* and checked_add for a positive, checked_sub for a negative number; None
\* on overflow.
RECURSIVE DigitsValue(_, _, _)
DigitsValue(s, neg, acc) ==
    IF s = <<>> THEN Some(acc)
    ELSE LET d == DigitVal(Head(s)) IN
         IF neg
         THEN (IF (0 - acc) > (IF d = 0 THEN I32_MAX \div 10
                               ELSE (I32_MAX - d + 1) \div 10)
               THEN None
               ELSE DigitsValue(Tail(s), neg, acc * 10 - d))
         ELSE (IF acc > (I32_MAX - d) \div 10
               THEN None
               ELSE DigitsValue(Tail(s), neg, acc * 10 + d))

\* <i32 as FromStr>::from_str: optional sign, at least one digit, in range
ParseI32(s) ==
    LET neg == s # <<>> /\ Head(s) = "-"
        signed == s # <<>> /\ Head(s) \in {"-", "+"}
        body == IF signed THEN Tail(s) ELSE s
    IN  IF body = <<>> \/ \E k \in 1..Len(body) : ~IsDigit(body[k]) THEN None
        ELSE DigitsValue(body, neg, 0)

RECURSIVE NatDigits(_)
NatDigits(n) ==
    IF n < 10 THEN <<Digits[n + 1]>>
    ELSE Append(NatDigits(n \div 10), Digits[(n % 10) + 1])

\* The digits of the magnitude of n <= 0, taken without negating n
RECURSIVE NegDigits(_)
NegDigits(n) ==
    LET d == (10 - (n % 10)) % 10 IN
    IF n > 0 - 10 THEN <<Digits[d + 1]>>
    ELSE Append(NegDigits((n + d) \div 10), Digits[d + 1])

\* Variant: the sign is not written
FormatI32_unsigned(v) == IF v < 0 THEN NegDigits(v) ELSE NatDigits(v)

\* i32::to_string
FormatI32(v) == IF v < 0 THEN <<"-">> \o NegDigits(v) ELSE NatDigits(v)

\* An i64 is held as its sign and the decimal digits of its magnitude
\* without leading zeros: [neg, mag].
I64_MAX_DIGITS ==
    <<"9", "2", "2", "3", "3", "7", "2", "0", "3", "6", "8", "5", "4", "7",
      "7", "5", "8", "0", "7">>
I64_MIN_DIGITS ==
    <<"9", "2", "2", "3", "3", "7", "2", "0", "3", "6", "8", "5", "4", "7",
      "7", "5", "8", "0", "8">>

RECURSIVE StripZeros(_)
StripZeros(s) ==
    IF Len(s) > 1 /\ Head(s) = "0" THEN StripZeros(Tail(s)) ELSE s

\* a <= b for digit sequences without leading zeros
RECURSIVE DigitsLeq(_, _)
DigitsLeq(a, b) ==
    IF Len(a) # Len(b) THEN Len(a) < Len(b)
    ELSE IF a = <<>> THEN TRUE
    ELSE IF Head(a) # Head(b) THEN DigitVal(Head(a)) < DigitVal(Head(b))
    ELSE DigitsLeq(Tail(a), Tail(b))

\* <i64 as FromStr>::from_str
ParseI64(s) ==
    LET neg == s # <<>> /\ Head(s) = "-"
        signed == s # <<>> /\ Head(s) \in {"-", "+"}
        body == IF signed THEN Tail(s) ELSE s
    IN  IF body = <<>> \/ \E k \in 1..Len(body) : ~IsDigit(body[k]) THEN None
        ELSE LET mag == StripZeros(body) IN
             IF DigitsLeq(mag, IF neg THEN I64_MIN_DIGITS ELSE I64_MAX_DIGITS)
             THEN Some([neg |-> neg /\ mag # <<"0">>, mag |-> mag])
             ELSE None

\* i64::to_string
FormatI64(v) == IF v.neg THEN <<"-">> \o v.mag ELSE v.mag

\* str::to_lowercase on the letter atoms the inputs use
LowerAtom(a) ==
    CASE a \in {"TRUE", "True"} -> "true"
      [] a \in {"FALSE", "False"} -> "false"
      [] a \in {"YES", "Yes"} -> "yes"
      [] a \in {"NO", "No"} -> "no"
      [] a \in {"ON", "On"} -> "on"
      [] a \in {"OFF", "Off"} -> "off"
      [] OTHER -> a

ToLowercase(s) == [k \in 1..Len(s) |-> LowerAtom(s[k])]

ParseBool(s) ==
    LET l == ToLowercase(s) IN
    IF l \in {<<"true">>, <<"1">>, <<"yes">>, <<"on">>} THEN Some(TRUE)
    ELSE IF l \in {<<"false">>, <<"0">>, <<"no">>, <<"off">>} THEN Some(FALSE)
    ELSE None

FormatBool(v) == IF v THEN <<"1">> ELSE <<"0">>

Parse(ty, s) ==
    CASE ty = "bool" -> ParseBool(s)
      [] ty = "i32" -> ParseI32(s)
      [] ty = "i64" -> ParseI64(s)
      [] ty = "string" -> Some(s)

Format(ty, v) ==
    CASE ty = "bool" -> FormatBool(v)
      [] ty = "i32" -> FormatI32(v)
      [] ty = "i64" -> FormatI64(v)
      [] ty = "string" -> v

IntMax(a, b) == IF a >= b THEN a ELSE b
IntMin(a, b) == IF a <= b THEN a ELSE b

\* impl ConVarValue for i32: v.max(min) then v.min(max)
ClampI32(v, min, max) ==
    LET v1 == IF IsSome(min) THEN IntMax(v, Unwrap(min)) ELSE v
    IN  IF IsSome(max) THEN IntMin(v1, Unwrap(max)) ELSE v1

Clamp(ty, v, min, max) ==
    IF ty = "i32" THEN ClampI32(v, min, max) ELSE v

(***************************************************************************)
(* ConVar<T> (core/convar.rs)                                              *)
(***************************************************************************)
ConVar_new(name, ty, default) ==
    [name |-> name, ty |-> ty, value |-> default, default |-> default,
     flags |-> FlagsNONE, description |-> "", min |-> None, max |-> None,
     required_permission |-> User]

ConVar_description(cv, desc) == [cv EXCEPT !.description = desc]

ConVar_flags(cv, flags) == [cv EXCEPT !.flags = flags]

ConVar_min(cv, m) ==
    [cv EXCEPT !.min = Some(m),
               !.value = Clamp(cv.ty, cv.value, Some(m), cv.max)]

ConVar_max(cv, m) ==
    [cv EXCEPT !.max = Some(m),
               !.value = Clamp(cv.ty, cv.value, cv.min, Some(m))]

ConVar_permission(cv, level) == [cv EXCEPT !.required_permission = level]

\* Variant: no READ_ONLY check
ConVar_set_unguarded(cv, value) ==
    [ok |-> TRUE,
     cv |-> [cv EXCEPT !.value = Clamp(cv.ty, value, cv.min, cv.max)]]

\* Results of the mutating methods: [ok |-> return value, cv |-> variable after]
ConVar_set(cv, value) ==
    IF FlagsContains(cv.flags, {READ_ONLY}) THEN [ok |-> FALSE, cv |-> cv]
    ELSE [ok |-> TRUE,
          cv |-> [cv EXCEPT !.value = Clamp(cv.ty, value, cv.min, cv.max)]]

ConVar_reset(cv) ==
    IF ~FlagsContains(cv.flags, {READ_ONLY})
    THEN [cv EXCEPT !.value = cv.default]
    ELSE cv

ConVar_is_modified(cv) == cv.value # cv.default

ConVar_has_bounds(cv) == IsSome(cv.min) \/ IsSome(cv.max)

\* impl ConVarDyn for ConVar<T>
ConVar_get_string(cv) == Format(cv.ty, cv.value)

ConVar_default_string(cv) == Format(cv.ty, cv.default)

ConVar_set_string(cv, s) ==
    IF FlagsContains(cv.flags, {READ_ONLY}) THEN [ok |-> FALSE, cv |-> cv]
    ELSE LET p == Parse(cv.ty, s) IN
         IF IsSome(p)
         THEN [ok |-> TRUE,
               cv |-> [cv EXCEPT !.value = Clamp(cv.ty, Unwrap(p), cv.min, cv.max)]]
         ELSE [ok |-> FALSE, cv |-> cv]

(***************************************************************************)
(* ConCommand (core/concommand.rs).  A handler is a record naming the      *)
(* closure's behaviour; see RunHandler for what each one does.             *)
(***************************************************************************)
ConCommand_new(name, handler) ==
    [name |-> name, description |-> "", flags |-> FlagsNONE,
     required_permission |-> User, handler |-> handler, autocomplete |-> None]

ConCommand_description(cmd, desc) == [cmd EXCEPT !.description = desc]

ConCommand_flags(cmd, flags) == [cmd EXCEPT !.flags = flags]

ConCommand_permission(cmd, level) == [cmd EXCEPT !.required_permission = level]

\* ConCommand::split: (meta, handler, autocomplete)
ConCommand_split(cmd) ==
    [meta |-> [name |-> cmd.name, description |-> cmd.description,
               flags |-> cmd.flags,
               required_permission |-> cmd.required_permission],
     handler |-> cmd.handler,
     autocomplete |-> cmd.autocomplete]

(***************************************************************************)
(* ConEntry, ConVarMeta, ConsoleRegistry (core/registry.rs)                *)
(***************************************************************************)
\* ConVarMeta::from_convar wrapped in ConEntry::Var
EntryVar(cvar) ==
    [kind |-> "Var", name |-> cvar.name, description |-> cvar.description,
     flags |-> cvar.flags, required_permission |-> cvar.required_permission,
     value |-> cvar]

\* ConEntry::Cmd(meta)
EntryCmd(meta) ==
    [kind |-> "Cmd", name |-> meta.name, description |-> meta.description,
     flags |-> meta.flags, required_permission |-> meta.required_permission]

\* HashMap::insert
MapInsert(m, k, v) == (k :> v) @@ m

\* HashMap::remove
MapRemove(m, k) == [x \in (DOMAIN m) \ {k} |-> m[x]]

EmptyMap == <<>>

\* ConsoleRegistry::default(); the trie holds the set of keys
Registry_new == [trie |-> {}, entries |-> EmptyMap]

Registry_contains(reg, name) == name \in DOMAIN reg.entries

Registry_len(reg) == Cardinality(DOMAIN reg.entries)

Registry_get_entry(reg, name) ==
    IF name \in DOMAIN reg.entries THEN Some(reg.entries[name]) ELSE None

\* Variant: an existing entry is kept
Registry_register_var_keeping(reg, cvar) ==
    LET is_duplicate == cvar.name \in DOMAIN reg.entries IN
    [reg |-> IF is_duplicate THEN reg
             ELSE [trie |-> reg.trie \cup {cvar.name},
                   entries |-> MapInsert(reg.entries, cvar.name, EntryVar(cvar))],
     is_new |-> ~is_duplicate]

Registry_register_var(reg, cvar) ==
    LET is_duplicate == cvar.name \in DOMAIN reg.entries IN
    [reg |-> [trie |-> reg.trie \cup {cvar.name},
              entries |-> MapInsert(reg.entries, cvar.name, EntryVar(cvar))],
     is_new |-> ~is_duplicate]

Registry_register_cmd_meta(reg, meta) ==
    LET is_duplicate == meta.name \in DOMAIN reg.entries IN
    [reg |-> [trie |-> reg.trie \cup {meta.name},
              entries |-> MapInsert(reg.entries, meta.name, EntryCmd(meta))],
     is_new |-> ~is_duplicate]

Registry_register_cmd(reg, cmd) ==
    LET sp == ConCommand_split(cmd)
        is_duplicate == sp.meta.name \in DOMAIN reg.entries
    IN  [reg |-> [trie |-> reg.trie \cup {sp.meta.name},
                  entries |-> MapInsert(reg.entries, sp.meta.name, EntryCmd(sp.meta))],
         name |-> sp.meta.name, handler |-> sp.handler,
         autocomplete |-> sp.autocomplete, is_new |-> ~is_duplicate]

\* Variant: the stored type is not compared with the requested one
Registry_get_any_type(reg, ty, name) ==
    IF name \notin DOMAIN reg.entries THEN None
    ELSE LET e == reg.entries[name] IN
         IF e.kind = "Var" THEN Some(e.value.value) ELSE None

\* ConsoleRegistry::get::<T>: the downcast succeeds iff the stored type is T
Registry_get(reg, ty, name) ==
    IF name \notin DOMAIN reg.entries THEN None
    ELSE LET e == reg.entries[name] IN
         IF e.kind = "Var" /\ e.value.ty = ty THEN Some(e.value.value) ELSE None

Registry_get_string(reg, name) ==
    IF name \notin DOMAIN reg.entries THEN None
    ELSE LET e == reg.entries[name] IN
         IF e.kind = "Var" THEN Some(ConVar_get_string(e.value)) ELSE None

\* Results of the mutating methods: [ok |-> return value, reg |-> registry after]
Registry_set(reg, ty, name, value) ==
    IF name \notin DOMAIN reg.entries THEN [ok |-> FALSE, reg |-> reg]
    ELSE LET e == reg.entries[name] IN
         IF e.kind = "Var" /\ e.value.ty = ty
         THEN LET r == ConVar_set(e.value, value) IN
              [ok |-> r.ok, reg |-> [reg EXCEPT !.entries[name].value = r.cv]]
         ELSE [ok |-> FALSE, reg |-> reg]

Registry_set_string(reg, name, s) ==
    IF name \notin DOMAIN reg.entries THEN [ok |-> FALSE, reg |-> reg]
    ELSE LET e == reg.entries[name] IN
         IF e.kind = "Var"
         THEN LET r == ConVar_set_string(e.value, s) IN
              [ok |-> r.ok, reg |-> [reg EXCEPT !.entries[name].value = r.cv]]
         ELSE [ok |-> FALSE, reg |-> reg]

\* get_entry_mut(name) matched as ConEntry::Var, then ConVarMeta::reset
Registry_reset(reg, name) ==
    IF name \in DOMAIN reg.entries /\ reg.entries[name].kind = "Var"
    THEN [ok |-> TRUE,
          reg |-> [reg EXCEPT !.entries[name].value =
                                   ConVar_reset(reg.entries[name].value)]]
    ELSE [ok |-> FALSE, reg |-> reg]

Registry_vars(reg) == {n \in DOMAIN reg.entries : reg.entries[n].kind = "Var"}

Registry_cmds(reg) == {n \in DOMAIN reg.entries : reg.entries[n].kind = "Cmd"}

Registry_modified_vars(reg) ==
    {n \in Registry_vars(reg) : ConVar_is_modified(reg.entries[n].value)}

(***************************************************************************)
(* CommandHandlers (core/registry.rs)                                      *)
(***************************************************************************)
Handlers_new == [handlers |-> EmptyMap, autocomplete |-> EmptyMap]

Handlers_register(hs, name, handler, autocomplete) ==
    [handlers |-> MapInsert(hs.handlers, name, handler),
     autocomplete |-> IF IsSome(autocomplete)
                      THEN MapInsert(hs.autocomplete, name, Unwrap(autocomplete))
                      ELSE hs.autocomplete]

\* take: [handler |-> Option, hs |-> store after the removal]
Handlers_take(hs, name) ==
    IF name \in DOMAIN hs.handlers
    THEN [handler |-> Some(hs.handlers[name]),
          hs |-> [hs EXCEPT !.handlers = MapRemove(hs.handlers, name)]]
    ELSE [handler |-> None, hs |-> hs]

\* Variant: the handler is dropped
Handlers_put_dropped(hs, name, handler) == hs

Handlers_put(hs, name, handler) ==
    [hs EXCEPT !.handlers = MapInsert(hs.handlers, name, handler)]

(***************************************************************************)
(* Console system parameter (core/console.rs) and the register_cmd helper  *)
(* of lib.rs: both register the metadata, then store the handler.          *)
(***************************************************************************)
Console_register_var(reg, hs, cvar) ==
    LET r == Registry_register_var(reg, cvar) IN
    [reg |-> r.reg, hs |-> hs, is_new |-> r.is_new]

Console_register_cmd(reg, hs, cmd) ==
    LET r == Registry_register_cmd(reg, cmd) IN
    [reg |-> r.reg,
     hs |-> Handlers_register(hs, r.name, r.handler, r.autocomplete),
     is_new |-> r.is_new]

(***************************************************************************)
(* Console output records and messages (core/events.rs, lib.rs).  A        *)
(* message is the tuple of the format string's fixed text and arguments.   *)
(***************************************************************************)
ConsoleOutputEvent(level, message) == [level |-> level, message |-> message]

ConVarChangedEvent(name, old_value, new_value) ==
    [name |-> name, old_value |-> old_value, new_value |-> new_value]

MsgEcho(cmd_str) == <<"$ ", cmd_str>>
MsgParseError(e) == <<"Parse error: ", e.err, e.position>>
MsgCannotExecute(name, reason) == <<"Cannot execute", name, reason>>
MsgCannotSet(name, reason) == <<"Cannot set", name, reason>>
MsgPanicked(name, panic_msg) == <<"Command panicked", name, panic_msg>>
MsgValue(name, value) == <<"=", name, value>>
MsgDescription(desc) == <<" - ", desc>>
MsgUnknown(name) == <<"Unknown command or variable", name>>

ReasonCheats == <<"Requires sv_cheats to be enabled">>
ReasonPermission(required, current) ==
    <<"Insufficient permission", PermissionName(required), PermissionName(current)>>
ReasonInvalid == <<"invalid value or read-only">>

(***************************************************************************)
(* Names and the entries registered at startup (lib.rs)                    *)
(***************************************************************************)
sv_cheats == <<"sv_cheats">>

\* Handler closures.  The built-ins of register_builtin_commands, and the
\* handlers the integration tests register: a counting handler
\* (TestCommandExecuted) and a handler that panics with a message.
HandlerOf(kind) == [kind |-> kind]
LogOnlyKinds == {"help", "cvarlist", "find", "echo", "differences"}
PanicMessage == "boom"

BuiltinVar_sv_cheats ==
    ConVar_permission(
        ConVar_max(
            ConVar_min(
                ConVar_description(ConVar_new(sv_cheats, "i32", 0),
                    "Enable cheat-protected commands and variables"),
                0),
            1),
        Admin)

BuiltinCommandNames ==
    <<"help", "cvarlist", "find", "echo", "clear", "quit", "toggle", "reset",
      "differences">>

RECURSIVE RegisterBuiltinsFrom(_, _, _)
RegisterBuiltinsFrom(reg, hs, k) ==
    IF k > Len(BuiltinCommandNames) THEN [reg |-> reg, hs |-> hs]
    ELSE LET kind == BuiltinCommandNames[k]
             r == Console_register_cmd(reg, hs,
                      ConCommand_new(<<kind>>, HandlerOf(kind)))
         IN  RegisterBuiltinsFrom(r.reg, r.hs, k + 1)

\* register_builtin_commands on the default resources
register_builtin_commands ==
    RegisterBuiltinsFrom(
        Registry_register_var(Registry_new, BuiltinVar_sv_cheats).reg,
        Handlers_new, 1)

(***************************************************************************)
(* Access gate (lib.rs check_access)                                       *)
(***************************************************************************)
UnwrapOr(o, d) == IF IsSome(o) THEN Unwrap(o) ELSE d

\* Variant: sv_cheats is not read
CheatsEnabled_always(reg) == TRUE

CheatsEnabled(reg) == UnwrapOr(Registry_get(reg, "i32", sv_cheats), 0) # 0

\* Variant: the CHEAT flag is not looked at
check_access_without_cheat(reg, current_level, flags, required_permission) ==
    IF ~has_permission(current_level, required_permission)
    THEN Some(ReasonPermission(required_permission, current_level))
    ELSE None

\* Ok(()) is None; Err(reason) is Some(reason)
check_access(reg, current_level, flags, required_permission) ==
    IF FlagsContains(flags, {CHEAT}) /\ ~CheatsEnabled(reg)
    THEN Some(ReasonCheats)
    ELSE IF ~has_permission(current_level, required_permission)
    THEN Some(ReasonPermission(required_permission, current_level))
    ELSE None

(***************************************************************************)
(* Handler bodies (lib.rs register_builtin_commands and the test handlers) *)
(* The world w a handler sees is [registry, pending, tracker]; the         *)
(* CommandHandlers resource is out of the world while the handler runs.    *)
(* Result: [panic |-> Option(message), exit |-> process exited, w |-> w']. *)
(***************************************************************************)
Returned(w) == [panic |-> None, exit |-> FALSE, w |-> w]

ArgsGet(args, index) == IF index < Len(args) THEN Some(args[index + 1]) ELSE None

Handler_toggle(args, w) ==
    LET a0 == ArgsGet(args, 0) IN
    IF ~IsSome(a0) THEN Returned(w)
    ELSE LET name == Unwrap(a0)
             asBool == Registry_get(w.registry, "bool", name)
             asI32 == Registry_get(w.registry, "i32", name)
         IN  IF IsSome(asBool)
             THEN Returned([w EXCEPT !.registry =
                      Registry_set(w.registry, "bool", name, ~Unwrap(asBool)).reg])
             ELSE IF IsSome(asI32)
             THEN LET new_val == IF Unwrap(asI32) = 0 THEN 1 ELSE 0 IN
                  Returned([w EXCEPT !.registry =
                      Registry_set(w.registry, "i32", name, new_val).reg])
             ELSE Returned(w)

Handler_reset(args, w) ==
    LET a0 == ArgsGet(args, 0) IN
    IF ~IsSome(a0) THEN Returned(w)
    ELSE Returned([w EXCEPT !.registry = Registry_reset(w.registry, Unwrap(a0)).reg])

Handler_clear(args, w) == Returned([w EXCEPT !.pending.clear_console = TRUE])

Handler_quit(args, w) == [panic |-> None, exit |-> TRUE, w |-> w]

Handler_count(args, w) ==
    Returned([w EXCEPT !.tracker = [count |-> w.tracker.count + 1,
                                    last_args |-> args]])

Handler_panic(args, w) == [panic |-> Some(PanicMessage), exit |-> FALSE, w |-> w]

\* A host command that registers another command the way the register_cmd
\* helper of lib.rs does: the metadata goes into the ConsoleRegistry, then
\* the handler into the CommandHandlers resource.  While a handler runs that
\* resource is held by resource_scope and is not in the world, so fetching it
\* panics after the metadata has been registered.
made_cmd == <<"made_cmd">>
MissingHandlersMessage == "Requested resource CommandHandlers does not exist"

Handler_register_cmd(args, w) ==
    LET r == Registry_register_cmd(w.registry,
                 ConCommand_new(made_cmd, HandlerOf("count")))
    IN  [panic |-> Some(MissingHandlersMessage), exit |-> FALSE,
         w |-> [w EXCEPT !.registry = r.reg]]

\* The files exec can read: file name |-> lines
ok_cfg == <<"ok.cfg">>
split_cfg == <<"split.cfg">>
bad_cfg == <<"bad.cfg">>

ScriptFiles ==
    (ok_cfg :> << <<"/", "/", " ", "setup">>,
                  <<>>,
                  <<"#", "setup">>,
                  <<" ", "god_mode">>,
                  <<"test_var", " ", "1">> >>)
    @@ (split_cfg :> << <<"god_mode", ";", " ", "test_var", " ", "1">> >>)
    @@ (bad_cfg :> << <<"echo", " ", DQ>>, <<"god_mode">> >>)

\* `line.is_empty() || line.starts_with("//") || line.starts_with('#')`
ExecSkipsLine(line) ==
    \/ line = <<>>
    \/ Len(line) >= 2 /\ line[1] = "/" /\ line[2] = "/"
    \/ line[1] = "#"

\* `pending.outputs.push(ConsoleOutputEvent::command(format!("$ {}", line)))`
ExecEcho(pending, line) ==
    [pending EXCEPT !.outputs =
         Append(pending.outputs, ConsoleOutputEvent("Command", MsgEcho(line)))]

\* `if let Ok(tokens) = tokenize(line) { pending.queue.push(..) }`
ExecPush(pending, line, t) ==
    IF t.ok
    THEN [pending EXCEPT !.queue =
              Append(pending.queue,
                  [raw |-> line, name |-> t.val.command, args |-> t.val.args])]
    ELSE pending

\* The body of `for line in contents.lines()` after `line.trim()`
ExecTrimmedLine(pending, line) ==
    IF ExecSkipsLine(line) THEN pending
    ELSE ExecPush(ExecEcho(pending, line), line, tokenize(line))

ExecLine(pending, raw_line) == ExecTrimmedLine(pending, Trim(raw_line))

RECURSIVE ExecLines(_, _)
ExecLines(pending, lines) ==
    IF lines = <<>> THEN pending
    ELSE ExecLines(ExecLine(pending, Head(lines)), Tail(lines))

\* exec (feature "persist"): a missing argument or an unreadable file is
\* only logged
Handler_exec(args, w) ==
    LET a0 == ArgsGet(args, 0) IN
    IF ~IsSome(a0) THEN Returned(w)
    ELSE IF Unwrap(a0) \notin DOMAIN ScriptFiles THEN Returned(w)
    ELSE Returned([w EXCEPT !.pending =
                       ExecLines(w.pending, ScriptFiles[Unwrap(a0)])])

RunHandler(h, args, w) ==
    CASE h.kind = "toggle" -> Handler_toggle(args, w)
      [] h.kind = "reset" -> Handler_reset(args, w)
      [] h.kind = "clear" -> Handler_clear(args, w)
      [] h.kind = "quit" -> Handler_quit(args, w)
      [] h.kind = "count" -> Handler_count(args, w)
      [] h.kind = "panic" -> Handler_panic(args, w)
      [] h.kind = "register_cmd" -> Handler_register_cmd(args, w)
      [] h.kind = "exec" -> Handler_exec(args, w)
      [] h.kind \in LogOnlyKinds -> Returned(w)

(***************************************************************************)
(* Stage 2, one queued invocation (lib.rs execute_pending_commands, the    *)
(* body of `for cmd in queue`).  x is the stage's view of the world:       *)
(* [registry, handlers, current_level, aliases, pending, tracker, outputs,  *)
(*  changes, exited, invoked]; outputs and changes are the stage's local   *)
(* buffers, invoked records the handler call for observation.              *)
(***************************************************************************)
QueuedCommand(raw, tokens) ==
    [raw |-> raw, name |-> tokens.command, args |-> tokens.args]

\* Variant: the newest output is put in front
PushOutput_in_front(x, level, message) ==
    [x EXCEPT !.outputs = <<ConsoleOutputEvent(level, message)>> \o x.outputs]

PushOutput(x, level, message) ==
    [x EXCEPT !.outputs = Append(x.outputs, ConsoleOutputEvent(level, message))]

\* Variant: no catch_unwind, a panic unwinds out of the system
InvokeCommand_panic_unwinds(cmd, x) ==
    LET t == Handlers_take(x.handlers, cmd.name) IN
    IF ~IsSome(t.handler) THEN x
    ELSE LET handler == Unwrap(t.handler)
             r == RunHandler(handler, cmd.args,
                      [registry |-> x.registry, pending |-> x.pending,
                       tracker |-> x.tracker])
             x1 == [x EXCEPT !.registry = r.w.registry,
                             !.pending = r.w.pending,
                             !.tracker = r.w.tracker,
                             !.invoked = Some(cmd.name)]
         IN  IF r.exit \/ IsSome(r.panic)
             THEN [x1 EXCEPT !.handlers = t.hs, !.exited = TRUE]
             ELSE LET x2 == [x1 EXCEPT !.handlers =
                                 Handlers_put(t.hs, cmd.name, handler)]
                  IN  IF IsSome(r.panic)
                      THEN PushOutput(x2, "Error",
                               MsgPanicked(cmd.name, Unwrap(r.panic)))
                      ELSE x2

\* The command branch after the access check: resource_scope, take,
\* catch_unwind, put, and the panic report.
InvokeCommand(cmd, x) ==
    LET t == Handlers_take(x.handlers, cmd.name) IN
    IF ~IsSome(t.handler) THEN x
    ELSE LET handler == Unwrap(t.handler)
             r == RunHandler(handler, cmd.args,
                      [registry |-> x.registry, pending |-> x.pending,
                       tracker |-> x.tracker])
             x1 == [x EXCEPT !.registry = r.w.registry,
                             !.pending = r.w.pending,
                             !.tracker = r.w.tracker,
                             !.invoked = Some(cmd.name)]
         IN  IF r.exit THEN [x1 EXCEPT !.handlers = t.hs, !.exited = TRUE]
             ELSE LET x2 == [x1 EXCEPT !.handlers =
                                 Handlers_put(t.hs, cmd.name, handler)]
                  IN  IF IsSome(r.panic)
                      THEN PushOutput(x2, "Error",
                               MsgPanicked(cmd.name, Unwrap(r.panic)))
                      ELSE x2

\* Variant: no ConVarChangedEvent is queued
SetVariable_without_change(cmd, x, flags, required_permission) ==
    LET denied == check_access(x.registry, x.current_level, flags, required_permission) IN
    IF IsSome(denied)
    THEN PushOutput(x, "Error", MsgCannotSet(cmd.name, Unwrap(denied)))
    ELSE LET new_value == Join(cmd.args, <<" ">>)
             r == Registry_set_string(x.registry, cmd.name, new_value)
         IN  IF r.ok
             THEN PushOutput([x EXCEPT !.registry = r.reg], "Result",
                      MsgValue(cmd.name,
                               ConVar_get_string(r.reg.entries[cmd.name].value)))
             ELSE PushOutput(x, "Error", MsgCannotSet(cmd.name, ReasonInvalid))

\* The variable branch with arguments
SetVariable(cmd, x, flags, required_permission) ==
    LET denied == check_access(x.registry, x.current_level, flags, required_permission) IN
    IF IsSome(denied)
    THEN PushOutput(x, "Error", MsgCannotSet(cmd.name, Unwrap(denied)))
    ELSE LET old_value == UnwrapOr(Registry_get_string(x.registry, cmd.name), <<>>)
             new_value == Join(cmd.args, <<" ">>)
             r == Registry_set_string(x.registry, cmd.name, new_value)
         IN  IF r.ok
             THEN LET actual_new == ConVar_get_string(r.reg.entries[cmd.name].value)
                      x1 == PushOutput([x EXCEPT !.registry = r.reg], "Result",
                                MsgValue(cmd.name, actual_new))
                  IN  [x1 EXCEPT !.changes = Append(x1.changes,
                           ConVarChangedEvent(cmd.name, old_value, actual_new))]
             ELSE PushOutput(x, "Error", MsgCannotSet(cmd.name, ReasonInvalid))

\* Variant: reading goes through the access gate
ShowVariable_gated(cmd, x) ==
    LET meta == x.registry.entries[cmd.name]
        denied == check_access(x.registry, x.current_level, meta.flags,
                               meta.required_permission)
    IN  IF IsSome(denied)
        THEN PushOutput(x, "Error", MsgCannotSet(cmd.name, Unwrap(denied)))
        ELSE PushOutput(x, "Result",
                        MsgValue(cmd.name, ConVar_get_string(meta.value)))

\* The variable branch without arguments
ShowVariable(cmd, x) ==
    LET meta == x.registry.entries[cmd.name]
        x1 == PushOutput(x, "Result", MsgValue(cmd.name, ConVar_get_string(meta.value)))
    IN  IF meta.description # ""
        THEN PushOutput(x1, "Info", MsgDescription(meta.description))
        ELSE x1

\* Variant: the expansion is not queued
ExpandAlias_dropped(cmd, x) == x

\* The alias branch (feature "persist"): the expansion is re-tokenized and
\* pushed onto the pending queue for the next tick
ExpandAlias(cmd, x) ==
    LET alias_expansion == x.aliases[cmd.name]
        expanded == IF cmd.args = <<>> THEN alias_expansion
                    ELSE alias_expansion \o <<" ">> \o Join(cmd.args, <<" ">>)
        t == tokenize(expanded)
    IN  IF t.ok
        THEN [x EXCEPT !.pending.queue =
                  Append(x.pending.queue, QueuedCommand(expanded, t.val))]
        ELSE x

\* Variant: the alias table is consulted before the registry
ExecuteOne_alias_first(cmd, x) ==
    IF cmd.name \in DOMAIN x.aliases THEN ExpandAlias(cmd, x)
    ELSE LET entry == Registry_get_entry(x.registry, cmd.name) IN
         IF ~IsSome(entry) THEN PushOutput(x, "Error", MsgUnknown(cmd.name))
         ELSE LET meta == Unwrap(entry) IN
              IF meta.kind = "Cmd"
              THEN LET denied == check_access(x.registry, x.current_level,
                                     meta.flags, meta.required_permission)
                   IN  IF IsSome(denied)
                       THEN PushOutput(x, "Error",
                                MsgCannotExecute(cmd.name, Unwrap(denied)))
                       ELSE InvokeCommand(cmd, x)
              ELSE IF cmd.args = <<>>
                   THEN ShowVariable(cmd, x)
                   ELSE SetVariable(cmd, x, meta.flags, meta.required_permission)

ExecuteOne(cmd, x) ==
    LET entry == Registry_get_entry(x.registry, cmd.name) IN
    IF ~IsSome(entry)
    THEN IF cmd.name \in DOMAIN x.aliases
         THEN ExpandAlias(cmd, x)
         ELSE PushOutput(x, "Error", MsgUnknown(cmd.name))
    ELSE LET meta == Unwrap(entry) IN
         IF meta.kind = "Cmd"
         THEN LET denied == check_access(x.registry, x.current_level,
                                meta.flags, meta.required_permission)
              IN  IF IsSome(denied)
                  THEN PushOutput(x, "Error",
                           MsgCannotExecute(cmd.name, Unwrap(denied)))
                  ELSE InvokeCommand(cmd, x)
         ELSE IF cmd.args = <<>>
              THEN ShowVariable(cmd, x)
              ELSE SetVariable(cmd, x, meta.flags, meta.required_permission)

(***************************************************************************)
(* Stage 1 (lib.rs parse_console_input)                                    *)
(***************************************************************************)
\* Variant: a sub-line that fails to tokenize is skipped without an output
ParseSubLine_silent(pending, cmd_str) ==
    LET echoed == [pending EXCEPT !.outputs =
                       Append(pending.outputs,
                              ConsoleOutputEvent("Command", MsgEcho(cmd_str)))]
        t == tokenize(cmd_str)
    IN  IF ~t.ok
        THEN echoed
        ELSE [echoed EXCEPT !.queue =
                  Append(echoed.queue, QueuedCommand(cmd_str, t.val))]

\* The body of `for cmd_str in commands`
ParseSubLine(pending, cmd_str) ==
    LET echoed == [pending EXCEPT !.outputs =
                       Append(pending.outputs,
                              ConsoleOutputEvent("Command", MsgEcho(cmd_str)))]
        t == tokenize(cmd_str)
    IN  IF ~t.ok
        THEN [echoed EXCEPT !.outputs =
                  Append(echoed.outputs,
                         ConsoleOutputEvent("Error", MsgParseError(t)))]
        ELSE [echoed EXCEPT !.queue =
                  Append(echoed.queue, QueuedCommand(cmd_str, t.val))]

RECURSIVE ParseSubLines(_, _)
ParseSubLines(pending, commands) ==
    IF commands = <<>> THEN pending
    ELSE ParseSubLines(ParseSubLine(pending, Head(commands)), Tail(commands))

RECURSIVE ParseEvents(_, _)
ParseEvents(pending, events) ==
    IF events = <<>> THEN pending
    ELSE ParseEvents(ParseSubLines(pending, split_commands(Head(events))),
                     Tail(events))

(***************************************************************************)
(* State                                                                   *)
(***************************************************************************)
VARIABLES
    registry,       \* ConsoleRegistry resource
    handlers,       \* CommandHandlers resource
    current_level,  \* ConsolePermissions.current_level
    aliases,        \* CommandAliases resource
    input_events,   \* unread ConsoleInputEvent messages
    pending,        \* PendingCommands resource
    pc,             \* position in the tick: idle, parsed, executing, executed,
                    \* emitted; exited after process::exit
    exec,           \* locals of execute_pending_commands: queue, outputs, changes
    output_events,  \* ConsoleOutputEvent messages written in this frame
    change_events,  \* ConVarChangedEvent messages written in this frame
    clear_events,   \* number of ConsoleClearEvent messages written in this frame
    tracker,        \* TestCommandExecuted resource of the counting handler
    invoked,        \* observation: name whose handler the latest Stage 2 step ran
    sent,           \* number of input lines submitted so far
    cvar,           \* a ConVar used through its own API
    phase,          \* of cvar: "building" (builder chain) or "live"
    ret             \* return value of the latest API call

vars == <<registry, handlers, current_level, aliases, input_events, pending, pc,
          exec, output_events, change_events, clear_events, tracker, invoked,
          sent, cvar, phase, ret>>

pipelineVars == <<registry, handlers, current_level, aliases, input_events,
                  pending, pc, exec, output_events, change_events,
                  clear_events, tracker, invoked, sent>>

cvarVars == <<cvar, phase>>

(***************************************************************************)
(* Bounds                                                                  *)
(***************************************************************************)
MaxInputs == 2      \* input lines submitted in one run
MaxEvents == 2      \* input lines waiting for one tick

(***************************************************************************)
(* The application under the pipeline: the built-ins plus, registered by   *)
(* the host at startup, a counting command god_mode, a panicking command   *)
(* boom and an integer variable test_var.                                  *)
(***************************************************************************)
god_mode == <<"god_mode">>
boom == <<"boom">>
test_var == <<"test_var">>
TestDefault == 2

EmptyPending == [queue |-> <<>>, outputs |-> <<>>, changes |-> <<>>,
                 clear_console |-> FALSE]
EmptyExec == [queue |-> <<>>, outputs |-> <<>>, changes |-> <<>>]
EmptyTracker == [count |-> 0, last_args |-> <<>>]

Startup(cmd_flags, cmd_perm, var_flags, var_perm) ==
    LET b == register_builtin_commands
        r1 == Console_register_cmd(b.reg, b.hs,
                  ConCommand_permission(
                      ConCommand_flags(ConCommand_new(god_mode, HandlerOf("count")),
                                       cmd_flags),
                      cmd_perm))
        r2 == Console_register_cmd(r1.reg, r1.hs,
                  ConCommand_new(boom, HandlerOf("panic")))
        r3 == Console_register_var(r2.reg, r2.hs,
                  ConVar_permission(
                      ConVar_flags(ConVar_new(test_var, "i32", TestDefault), var_flags),
                      var_perm))
    IN  [reg |-> r3.reg, hs |-> r3.hs]

Line(words) == Join(words, <<" ">>)

InputLines ==
    { Line(<<sv_cheats, <<"1">>>>),
      Line(<<sv_cheats, <<"0">>>>),
      Line(<<<<"toggle">>, sv_cheats>>),
      god_mode,
      Line(<<sv_cheats, <<"1">>>>) \o <<";", " ">> \o god_mode,
      boom \o <<";">> \o god_mode,
      Line(<<test_var, <<"1">>>>),
      test_var,
      Line(<<<<"toggle">>, test_var>>),
      Line(<<<<"reset">>, test_var>>),
      Line(<<<<"echo">>, <<DQ>>>>),
      <<"clear">>,
      <<"quit">>,
      <<"nope">> }

\* Flags and required permission the host gives god_mode and test_var
Profile(cf, cp, vf, vp) ==
    [cmd_flags |-> cf, cmd_perm |-> cp, var_flags |-> vf, var_perm |-> vp]

Profiles ==
    { Profile(FlagsNONE, User, FlagsNONE, User),
      Profile(FlagsNONE, Admin, FlagsNONE, Admin),
      Profile(FlagsNONE, Server, {READ_ONLY}, User),
      Profile({CHEAT}, User, {CHEAT}, User),
      Profile({CHEAT}, Admin, {CHEAT}, Admin),
      Profile({CHEAT}, Server, {READ_ONLY}, Admin) }

CVarIdle == [name |-> <<"idle">>]

InitCVarIdle ==
    /\ cvar = CVarIdle
    /\ phase = "none"
    /\ ret = None

Init ==
    /\ \E p \in Profiles :
            LET s0 == Startup(p.cmd_flags, p.cmd_perm, p.var_flags, p.var_perm) IN
            /\ registry = s0.reg
            /\ handlers = s0.hs
    /\ current_level = Server
    /\ aliases = EmptyMap
    /\ input_events = <<>>
    /\ pending = EmptyPending
    /\ pc = "idle"
    /\ exec = EmptyExec
    /\ output_events = <<>>
    /\ change_events = <<>>
    /\ clear_events = 0
    /\ tracker = EmptyTracker
    /\ invoked = None
    /\ sent = 0
    /\ InitCVarIdle

(***************************************************************************)
(* Host actions between ticks                                              *)
(***************************************************************************)
\* A host system sets ConsolePermissions.current_level
SetLevel(level) ==
    /\ pc = "idle"
    /\ level # current_level
    /\ current_level' = level
    /\ UNCHANGED <<invoked, registry, handlers, aliases, input_events, pending, pc, exec,
                   output_events, change_events, clear_events, tracker, sent,
                   cvar, phase, ret>>

\* A collaborator writes a ConsoleInputEvent
SendInput(line) ==
    /\ pc = "idle"
    /\ sent < MaxInputs
    /\ Len(input_events) < MaxEvents
    /\ input_events' = Append(input_events, line)
    /\ sent' = sent + 1
    /\ UNCHANGED <<invoked, registry, handlers, current_level, aliases, pending, pc, exec,
                   output_events, change_events, clear_events, tracker,
                   cvar, phase, ret>>

\* A host system uses the Console API on test_var between ticks
HostValues == {0, 1}

HostSet(value) ==
    /\ pc = "idle"
    /\ LET r == Registry_set(registry, "i32", test_var, value) IN
       /\ registry' = r.reg
       /\ ret' = Some(r.ok)
    /\ UNCHANGED <<invoked, handlers, current_level, aliases, input_events,
                   pending, pc, exec, output_events, change_events,
                   clear_events, tracker, sent, cvar, phase>>

HostSetString(s) ==
    /\ pc = "idle"
    /\ LET r == Registry_set_string(registry, test_var, s) IN
       /\ registry' = r.reg
       /\ ret' = Some(r.ok)
    /\ UNCHANGED <<invoked, handlers, current_level, aliases, input_events,
                   pending, pc, exec, output_events, change_events,
                   clear_events, tracker, sent, cvar, phase>>

HostReset ==
    /\ pc = "idle"
    /\ LET r == Registry_reset(registry, test_var) IN
       /\ registry' = r.reg
       /\ ret' = None
    /\ UNCHANGED <<invoked, handlers, current_level, aliases, input_events,
                   pending, pc, exec, output_events, change_events,
                   clear_events, tracker, sent, cvar, phase>>

(***************************************************************************)
(* The tick: parse_console_input, execute_pending_commands (take, one step *)
(* per queued invocation, store back), send_pending_outputs                *)
(***************************************************************************)
ParseConsoleInput ==
    /\ pc = "idle"
    /\ pending' = ParseEvents(pending, input_events)
    /\ input_events' = <<>>
    /\ pc' = "parsed"
    /\ UNCHANGED <<invoked, registry, handlers, current_level, aliases, exec,
                   output_events, change_events, clear_events, tracker, sent,
                   cvar, phase, ret>>

ExecuteTake ==
    /\ pc = "parsed"
    /\ pending' = [pending EXCEPT !.queue = <<>>, !.outputs = <<>>, !.changes = <<>>]
    /\ IF pending.queue = <<>> /\ pending.outputs = <<>>
       THEN /\ pc' = "executed"
            /\ exec' = EmptyExec
       ELSE /\ pc' = "executing"
            /\ exec' = [queue |-> pending.queue, outputs |-> pending.outputs,
                        changes |-> pending.changes]
    /\ UNCHANGED <<invoked, registry, handlers, current_level, aliases, input_events,
                   output_events, change_events, clear_events, tracker, sent,
                   cvar, phase, ret>>

StageView ==
    [registry |-> registry, handlers |-> handlers,
     current_level |-> current_level, aliases |-> aliases,
     pending |-> pending, tracker |-> tracker,
     outputs |-> exec.outputs, changes |-> exec.changes, exited |-> FALSE,
     invoked |-> None]

ExecuteStep ==
    /\ pc = "executing"
    /\ exec.queue # <<>>
    /\ LET x == ExecuteOne(Head(exec.queue), StageView) IN
       /\ registry' = x.registry
       /\ handlers' = x.handlers
       /\ pending' = x.pending
       /\ tracker' = x.tracker
       /\ invoked' = x.invoked
       /\ exec' = [queue |-> Tail(exec.queue), outputs |-> x.outputs,
                   changes |-> x.changes]
       /\ pc' = IF x.exited THEN "exited" ELSE "executing"
    /\ UNCHANGED <<current_level, aliases, input_events, output_events,
                   change_events, clear_events, sent, cvar, phase, ret>>

ExecuteStore ==
    /\ pc = "executing"
    /\ exec.queue = <<>>
    /\ pending' = [pending EXCEPT !.outputs = exec.outputs,
                                  !.changes = exec.changes]
    /\ exec' = EmptyExec
    /\ invoked' = None
    /\ pc' = "executed"
    /\ UNCHANGED <<registry, handlers, current_level, aliases, input_events,
                   output_events, change_events, clear_events, tracker, sent,
                   cvar, phase, ret>>

SendPendingOutputs ==
    /\ pc = "executed"
    /\ output_events' = pending.outputs
    /\ change_events' = pending.changes
    /\ clear_events' = IF pending.clear_console THEN 1 ELSE 0
    /\ pending' = [pending EXCEPT !.outputs = <<>>, !.changes = <<>>,
                                  !.clear_console = FALSE]
    /\ pc' = "emitted"
    /\ UNCHANGED <<invoked, registry, handlers, current_level, aliases, input_events,
                   exec, tracker, sent, cvar, phase, ret>>

\* End of the frame: the readers have seen this frame's messages, which the
\* message buffers then drop
EndFrame ==
    /\ pc = "emitted"
    /\ output_events' = <<>>
    /\ change_events' = <<>>
    /\ clear_events' = 0
    /\ pc' = "idle"
    /\ UNCHANGED <<invoked, registry, handlers, current_level, aliases, input_events,
                   pending, exec, tracker, sent, cvar, phase, ret>>

Next ==
    \/ \E level \in PermissionLevel : SetLevel(level)
    \/ \E line \in InputLines : SendInput(line)
    \/ \E value \in HostValues : HostSet(value)
    \/ \E value \in HostValues : HostSetString(FormatI32(value))
    \/ HostReset
    \/ ParseConsoleInput
    \/ ExecuteTake
    \/ ExecuteStep
    \/ ExecuteStore
    \/ SendPendingOutputs
    \/ EndFrame

Spec == Init /\ [][Next]_vars

\* The three systems of the Update chain, and the frame's end
Pipeline ==
    \/ ParseConsoleInput
    \/ ExecuteTake
    \/ ExecuteStep
    \/ ExecuteStore
    \/ SendPendingOutputs
    \/ EndFrame

(***************************************************************************)
(* The pipeline fed with lines that read and set variables and with lines  *)
(* whose sub-lines fail to tokenize                                        *)
(***************************************************************************)
ShellLines ==
    { Line(<<sv_cheats, <<"3">>>>),
      Line(<<test_var, <<"1">>>>),
      Line(<<test_var, <<"1">>, <<"2">>>>),
      sv_cheats,
      test_var,
      god_mode \o <<";", " ">> \o Line(<<<<"echo">>, <<DQ>>>>),
      <<"/", "/", ";">> \o god_mode,
      <<"nope">> }

NextShell ==
    \/ \E level \in PermissionLevel : SetLevel(level)
    \/ \E line \in ShellLines : SendInput(line)
    \/ Pipeline

SpecShell == Init /\ [][NextShell]_vars

(***************************************************************************)
(* The pipeline with aliases (feature "persist"): the host has added the   *)
(* aliases q -> quit, g -> god_mode and gx -> god_mode x                   *)
(***************************************************************************)
alias_q == <<"q">>

alias_g == <<"g">>

alias_gx == <<"gx">>

HostAliases ==
    (alias_q :> <<"quit">>) @@ (alias_g :> god_mode)
        @@ (alias_gx :> Line(<<god_mode, <<"x">>>>))

AliasLines ==
    { Line(<<alias_q, <<"extra">>>>),
      alias_g,
      Line(<<alias_g, <<"a">>, <<"b">>>>),
      Line(<<alias_g, <<DQ, "a", " ", "b", DQ>>>>),
      Line(<<alias_gx, <<"y">>>>),
      Line(<<alias_q, <<SQ, DQ, SQ>>>>),
      <<"nope">> }

InitAlias ==
    /\ LET s0 == Startup(FlagsNONE, User, FlagsNONE, User) IN
       /\ registry = s0.reg
       /\ handlers = s0.hs
    /\ current_level = Server
    /\ aliases = HostAliases
    /\ input_events = <<>>
    /\ pending = EmptyPending
    /\ pc = "idle"
    /\ exec = EmptyExec
    /\ output_events = <<>>
    /\ change_events = <<>>
    /\ clear_events = 0
    /\ tracker = EmptyTracker
    /\ invoked = None
    /\ sent = 0
    /\ InitCVarIdle

NextAlias ==
    \/ \E level \in PermissionLevel : SetLevel(level)
    \/ \E line \in AliasLines : SendInput(line)
    \/ Pipeline

SpecAlias == InitAlias /\ [][NextAlias]_vars

(***************************************************************************)
(* The Typed Variable on its own: a ConVar<i32> is built with the builder  *)
(* calls in any order and then used through set, set_string and reset.     *)
(***************************************************************************)
MaxValue == 3       \* largest default, bound and argument tried

CVarValues == (0 - 1) .. MaxValue

CVarStrings == {FormatI32(v) : v \in CVarValues} \cup {<<"abc">>}

PipelineOff ==
    /\ registry = Registry_new
    /\ handlers = Handlers_new
    /\ current_level = Server
    /\ aliases = EmptyMap
    /\ input_events = <<>>
    /\ pending = EmptyPending
    /\ pc = "off"
    /\ exec = EmptyExec
    /\ output_events = <<>>
    /\ change_events = <<>>
    /\ clear_events = 0
    /\ tracker = EmptyTracker
    /\ invoked = None
    /\ sent = 0

InitConVar ==
    /\ PipelineOff
    /\ \E default \in CVarValues : cvar = ConVar_new(test_var, "i32", default)
    /\ phase = "building"
    /\ ret = None

BuildMin(m) ==
    /\ phase = "building"
    /\ cvar' = ConVar_min(cvar, m)
    /\ UNCHANGED <<pipelineVars, phase, ret>>

BuildMax(m) ==
    /\ phase = "building"
    /\ cvar' = ConVar_max(cvar, m)
    /\ UNCHANGED <<pipelineVars, phase, ret>>

BuildFlags(flags) ==
    /\ phase = "building"
    /\ cvar' = ConVar_flags(cvar, flags)
    /\ UNCHANGED <<pipelineVars, phase, ret>>

\* The builder expression ends; the variable is used from here on
BuildDone ==
    /\ phase = "building"
    /\ phase' = "live"
    /\ UNCHANGED <<pipelineVars, cvar, ret>>

CVarSet(value) ==
    /\ phase = "live"
    /\ LET r == ConVar_set(cvar, value) IN
       /\ cvar' = r.cv
       /\ ret' = Some(r.ok)
    /\ UNCHANGED <<pipelineVars, phase>>

CVarSetString(str) ==
    /\ phase = "live"
    /\ LET r == ConVar_set_string(cvar, str) IN
       /\ cvar' = r.cv
       /\ ret' = Some(r.ok)
    /\ UNCHANGED <<pipelineVars, phase>>

CVarReset ==
    /\ phase = "live"
    /\ cvar' = ConVar_reset(cvar)
    /\ ret' = None
    /\ UNCHANGED <<pipelineVars, phase>>

NextConVar ==
    \/ \E m \in CVarValues : BuildMin(m)
    \/ \E m \in CVarValues : BuildMax(m)
    \/ \E flags \in {FlagsNONE, {READ_ONLY}, {ARCHIVE}} : BuildFlags(flags)
    \/ BuildDone
    \/ \E value \in CVarValues : CVarSet(value)
    \/ \E str \in CVarStrings : CVarSetString(str)
    \/ CVarReset

SpecConVar == InitConVar /\ [][NextConVar]_vars

(***************************************************************************)
(* The Console facade on its own: register_var and register_cmd in any     *)
(* order, a name possibly registered again as the other kind of entry.     *)
(***************************************************************************)
ConsoleNames == {god_mode, boom, test_var}

ConsoleHandlerKinds == {"count", "panic", "clear"}

InitConsole ==
    /\ registry = Registry_new
    /\ handlers = Handlers_new
    /\ current_level = Server
    /\ aliases = EmptyMap
    /\ input_events = <<>>
    /\ pending = EmptyPending
    /\ pc = "console"
    /\ exec = EmptyExec
    /\ output_events = <<>>
    /\ change_events = <<>>
    /\ clear_events = 0
    /\ tracker = EmptyTracker
    /\ invoked = None
    /\ sent = 0
    /\ InitCVarIdle

ConsoleRegisterVar(name, default) ==
    /\ pc = "console"
    /\ LET r == Console_register_var(registry, handlers,
                                     ConVar_new(name, "i32", default)) IN
       /\ registry' = r.reg
       /\ handlers' = r.hs
       /\ ret' = Some(r.is_new)
    /\ UNCHANGED <<current_level, aliases, input_events, pending, pc, exec,
                   output_events, change_events, clear_events, tracker,
                   invoked, sent, cvar, phase>>

ConsoleRegisterCmd(name, kind) ==
    /\ pc = "console"
    /\ LET r == Console_register_cmd(registry, handlers,
                                     ConCommand_new(name, HandlerOf(kind))) IN
       /\ registry' = r.reg
       /\ handlers' = r.hs
       /\ ret' = Some(r.is_new)
    /\ UNCHANGED <<current_level, aliases, input_events, pending, pc, exec,
                   output_events, change_events, clear_events, tracker,
                   invoked, sent, cvar, phase>>

NextConsole ==
    \/ \E name \in ConsoleNames, default \in {0, 1} :
           ConsoleRegisterVar(name, default)
    \/ \E name \in ConsoleNames, kind \in ConsoleHandlerKinds :
           ConsoleRegisterCmd(name, kind)

SpecConsole == InitConsole /\ [][NextConsole]_vars

(***************************************************************************)
(* The Registry API on its own: get, get_string, set and set_string called *)
(* by host code on the registry the Startup systems have filled.  ret      *)
(* records the last call: its name, requested type, argument as text and   *)
(* whether it returned Some / true.                                        *)
(***************************************************************************)
nope == <<"nope">>

RegistryNames == {test_var, sv_cheats, god_mode, nope}

RegistryTypes == {"i32", "bool"}

RegistryArgs(ty) == IF ty = "i32" THEN HostValues ELSE BOOLEAN

RegistryStrings == {FormatI32(v) : v \in HostValues} \cup {<<"abc">>}

Call(op, ty, name, arg, ok) ==
    [op |-> op, ty |-> ty, name |-> name, arg |-> arg, ok |-> ok]

InitRegistry ==
    /\ \E p \in Profiles :
            LET s0 == Startup(p.cmd_flags, p.cmd_perm, p.var_flags, p.var_perm) IN
            /\ registry = s0.reg
            /\ handlers = s0.hs
    /\ current_level = Server
    /\ aliases = EmptyMap
    /\ input_events = <<>>
    /\ pending = EmptyPending
    /\ pc = "registry"
    /\ exec = EmptyExec
    /\ output_events = <<>>
    /\ change_events = <<>>
    /\ clear_events = 0
    /\ tracker = EmptyTracker
    /\ invoked = None
    /\ sent = 0
    /\ InitCVarIdle

RegistryUnchanged ==
    UNCHANGED <<handlers, current_level, aliases, input_events, pending, pc,
                exec, output_events, change_events, clear_events, tracker,
                invoked, sent, cvar, phase>>

RegistryGet(ty, name) ==
    /\ pc = "registry"
    /\ ret' = Some(Call("get", ty, name, <<>>,
                        IsSome(Registry_get(registry, ty, name))))
    /\ registry' = registry
    /\ RegistryUnchanged

RegistryGetString(name) ==
    /\ pc = "registry"
    /\ ret' = Some(Call("get_string", "", name, <<>>,
                        IsSome(Registry_get_string(registry, name))))
    /\ registry' = registry
    /\ RegistryUnchanged

RegistrySet(ty, name, value) ==
    /\ pc = "registry"
    /\ LET r == Registry_set(registry, ty, name, value) IN
       /\ registry' = r.reg
       /\ ret' = Some(Call("set", ty, name, Format(ty, value), r.ok))
    /\ RegistryUnchanged

RegistrySetString(name, str) ==
    /\ pc = "registry"
    /\ LET r == Registry_set_string(registry, name, str) IN
       /\ registry' = r.reg
       /\ ret' = Some(Call("set_string", "", name, str, r.ok))
    /\ RegistryUnchanged

NextRegistry ==
    \/ \E ty \in RegistryTypes, name \in RegistryNames : RegistryGet(ty, name)
    \/ \E name \in RegistryNames : RegistryGetString(name)
    \/ \E ty \in RegistryTypes, name \in RegistryNames :
           \E value \in RegistryArgs(ty) : RegistrySet(ty, name, value)
    \/ \E name \in RegistryNames, str \in RegistryStrings :
           RegistrySetString(name, str)

SpecRegistry == InitRegistry /\ [][NextRegistry]_vars

(***************************************************************************)
(* The tokenizer on its own (specification SpecText): tokenize and         *)
(* split_commands are applied to every line of at most MaxTextLen          *)
(* characters over TextAlphabet and to the lines of NamedTexts.  Every     *)
(* atom of these lines is one character, so offsets are byte offsets.      *)
(***************************************************************************)
MaxTextLen == 4     \* longest enumerated line, in characters

TextAlphabet == {"a", " ", DQ, SQ, BS, "/", ";"}

NamedTexts ==
    { <<"e", " ", "h", " ", "w">>,
      <<"s", " ", DQ, "h", " ", "w", DQ>>,
      <<"a", " ", DQ, BS, DQ, "b", DQ>>,
      <<"a", " ", SQ, "/", "/", SQ, " ", "b">>,
      <<"a", " ", "b", " ", "/", "/", " ", "c">>,
      <<" ", " ", "e", " ", DQ, "x">>,
      <<"a", " ", "1", ";", " ", "n", ";", " ", "g">>,
      <<"e", " ", DQ, "a", ";", "b", DQ, ";", "q">>,
      <<"e", " ", DQ, BS, DQ, ";", DQ, ";", "q">> }

TextLines ==
    UNION {[1..n -> TextAlphabet] : n \in 0..MaxTextLen} \cup NamedTexts

TextCall(op, ok, command, args, err, position, pieces) ==
    [op |-> op, ok |-> ok, command |-> command, args |-> args, err |-> err,
     position |-> position, pieces |-> pieces]

TextLine == input_events[1]

InitText ==
    /\ registry = Registry_new
    /\ handlers = Handlers_new
    /\ current_level = User
    /\ aliases = EmptyMap
    /\ \E line \in TextLines : input_events = <<line>>
    /\ pending = EmptyPending
    /\ pc = "text"
    /\ exec = EmptyExec
    /\ output_events = <<>>
    /\ change_events = <<>>
    /\ clear_events = 0
    /\ tracker = EmptyTracker
    /\ invoked = None
    /\ sent = 0
    /\ InitCVarIdle

TextUnchanged ==
    UNCHANGED <<registry, handlers, current_level, aliases, input_events,
                pending, pc, exec, output_events, change_events, clear_events,
                tracker, invoked, sent, cvar, phase>>

TextTokenize ==
    /\ pc = "text"
    /\ LET r == tokenize(TextLine) IN
       ret' = Some(IF r.ok
                   THEN TextCall("tokenize", TRUE, r.val.command, r.val.args,
                                 "", 0, <<>>)
                   ELSE TextCall("tokenize", FALSE, <<>>, <<>>, r.err,
                                 r.position, <<>>))
    /\ TextUnchanged

TextSplit ==
    /\ pc = "text"
    /\ ret' = Some(TextCall("split_commands", TRUE, <<>>, <<>>, "", 0,
                            split_commands(TextLine)))
    /\ TextUnchanged

NextText == TextTokenize \/ TextSplit

SpecText == InitText /\ [][NextText]_vars

(***************************************************************************)
(* Trie (core/trie.rs).  A node is named by the bytes on its path from the *)
(* root; nodes maps the paths of the nodes that exist to their value and   *)
(* key fields.  The children of a node are the existing nodes one byte     *)
(* longer.                                                                 *)
(***************************************************************************)
TrieNode_default == [value |-> None, key |-> None]

Trie_new == [nodes |-> (<<>> :> TrieNode_default), len |-> 0]

Trie_len(t) == t.len

Prefixes(key) == {SubSeq(key, 1, n) : n \in 0..Len(key)}

\* `for &byte in key.as_bytes() { node = node.children.get(&byte)?; }`
Trie_walk(t, key) ==
    IF Prefixes(key) \subseteq DOMAIN t.nodes THEN Some(key) ELSE None

\* Variant: every insert counts as a new key
Trie_insert_counting(t, key, value) ==
    LET created == [p \in DOMAIN t.nodes \cup Prefixes(key) |->
                        IF p \in DOMAIN t.nodes THEN t.nodes[p]
                        ELSE TrieNode_default]
        old == created[key].value
    IN  [trie |-> [nodes |-> [created EXCEPT
                                ![key] = [value |-> Some(value),
                                          key |-> Some(key)]],
                   len |-> t.len + 1],
         old |-> old]

Trie_insert(t, key, value) ==
    LET created == [p \in DOMAIN t.nodes \cup Prefixes(key) |->
                        IF p \in DOMAIN t.nodes THEN t.nodes[p]
                        ELSE TrieNode_default]
        old == created[key].value
    IN  [trie |-> [nodes |-> [created EXCEPT
                                ![key] = [value |-> Some(value),
                                          key |-> Some(key)]],
                   len |-> IF old = None THEN t.len + 1 ELSE t.len],
         old |-> old]

Trie_get(t, key) ==
    IF Trie_walk(t, key) = None THEN None ELSE t.nodes[key].value

Trie_contains(t, key) == IsSome(Trie_get(t, key))

Trie_remove(t, key) ==
    IF Trie_walk(t, key) = None THEN [trie |-> t, removed |-> None]
    ELSE LET node == t.nodes[key] IN
         [trie |-> [nodes |-> [t.nodes EXCEPT
                                 ![key] = [value |-> None,
                                           key |-> IF IsSome(node.value)
                                                   THEN None ELSE node.key]],
                    len |-> IF IsSome(node.value) THEN t.len - 1 ELSE t.len],
          removed |-> node.value]

Trie_clear(t) == Trie_new

\* node.children.values(): the children of the node at path, in the order
\* the HashMap happens to iterate its bytes
Children(t, path, order) ==
    SelectSeq([i \in 1..Len(order) |-> Append(path, order[i])],
              LAMBDA child : child \in DOMAIN t.nodes)

\* PrefixIter::next called until it returns None: the items in yield order
RECURSIVE PrefixIter_collect(_, _, _)
PrefixIter_collect(t, stack, order) ==
    IF stack = <<>> THEN <<>>
    ELSE LET path == stack[Len(stack)]
             node == t.nodes[path]
             rest == SubSeq(stack, 1, Len(stack) - 1) \o Children(t, path, order)
         IN  (IF IsSome(node.key) /\ IsSome(node.value)
              THEN << <<Unwrap(node.key), Unwrap(node.value)>> >>
              ELSE <<>>)
             \o PrefixIter_collect(t, rest, order)

\* Variant: the prefix is ignored and the whole trie is iterated
Trie_prefix_iter_from_root(t, prefix, order) ==
    PrefixIter_collect(t, << <<>> >>, order)

Trie_prefix_iter(t, prefix, order) ==
    IF Trie_walk(t, prefix) = None THEN <<>>
    ELSE PrefixIter_collect(t, <<prefix>>, order)

(***************************************************************************)
(* The Trie on its own (specification SpecTrie): at most MaxTrieOps calls  *)
(* of insert, remove and clear, with lookups in between.  The trie is held *)
(* in cvar; aliases holds the key-value map the calls so far amount to,    *)
(* maintained as a HashMap; sent counts the calls.                         *)
(***************************************************************************)
MaxTrieOps == 3     \* calls of insert, remove and clear in one run

TrieKeys == {<<"a">>, <<"a", "b">>, <<"b">>}
TrieProbes == TrieKeys \cup {<<>>, <<"b", "a">>}
TrieValues == {1, 2}
TrieOrders == {<<"a", "b">>, <<"b", "a">>}

trie_map == aliases

TrieCall(op, key, value, result, found, items) ==
    [op |-> op, key |-> key, value |-> value, result |-> result,
     found |-> found, items |-> items]

InitTrie ==
    /\ registry = Registry_new
    /\ handlers = Handlers_new
    /\ current_level = User
    /\ aliases = EmptyMap
    /\ input_events = <<>>
    /\ pending = EmptyPending
    /\ pc = "trie"
    /\ exec = EmptyExec
    /\ output_events = <<>>
    /\ change_events = <<>>
    /\ clear_events = 0
    /\ tracker = EmptyTracker
    /\ invoked = None
    /\ sent = 0
    /\ cvar = Trie_new
    /\ phase = "none"
    /\ ret = None

TrieUnchanged ==
    UNCHANGED <<registry, handlers, current_level, input_events, pending, pc,
                exec, output_events, change_events, clear_events, tracker,
                invoked, phase>>

TrieInsert(key, value) ==
    /\ pc = "trie" /\ sent < MaxTrieOps
    /\ LET r == Trie_insert(cvar, key, value) IN
       /\ cvar' = r.trie
       /\ ret' = Some(TrieCall("insert", key, value, r.old, FALSE, <<>>))
    /\ aliases' = MapInsert(aliases, key, value)
    /\ sent' = sent + 1
    /\ TrieUnchanged

TrieRemove(key) ==
    /\ pc = "trie" /\ sent < MaxTrieOps
    /\ LET r == Trie_remove(cvar, key) IN
       /\ cvar' = r.trie
       /\ ret' = Some(TrieCall("remove", key, 0, r.removed, FALSE, <<>>))
    /\ aliases' = MapRemove(aliases, key)
    /\ sent' = sent + 1
    /\ TrieUnchanged

TrieClear ==
    /\ pc = "trie" /\ sent < MaxTrieOps
    /\ cvar' = Trie_clear(cvar)
    /\ ret' = Some(TrieCall("clear", <<>>, 0, None, FALSE, <<>>))
    /\ aliases' = EmptyMap
    /\ sent' = sent + 1
    /\ TrieUnchanged

TrieGet(key) ==
    /\ pc = "trie"
    /\ ret' = Some(TrieCall("get", key, 0, Trie_get(cvar, key), FALSE, <<>>))
    /\ UNCHANGED <<cvar, aliases, sent>>
    /\ TrieUnchanged

TrieContains(key) ==
    /\ pc = "trie"
    /\ ret' = Some(TrieCall("contains", key, 0, None,
                            Trie_contains(cvar, key), <<>>))
    /\ UNCHANGED <<cvar, aliases, sent>>
    /\ TrieUnchanged

TriePrefixIter(prefix, order) ==
    /\ pc = "trie"
    /\ ret' = Some(TrieCall("prefix_iter", prefix, 0, None, FALSE,
                            Trie_prefix_iter(cvar, prefix, order)))
    /\ UNCHANGED <<cvar, aliases, sent>>
    /\ TrieUnchanged

NextTrie ==
    \/ \E key \in TrieKeys, value \in TrieValues : TrieInsert(key, value)
    \/ \E key \in TrieProbes : TrieRemove(key)
    \/ TrieClear
    \/ \E key \in TrieProbes : TrieGet(key)
    \/ \E key \in TrieProbes : TrieContains(key)
    \/ \E prefix \in TrieProbes, order \in TrieOrders :
            TriePrefixIter(prefix, order)

SpecTrie == InitTrie /\ [][NextTrie]_vars

(***************************************************************************)
(* Fuzzy matcher (core/matcher.rs).  Pattern and text are sequences of     *)
(* bytes; indices are 0-based.                                             *)
(***************************************************************************)
AsciiUpper == <<"A", "B", "C", "D", "E", "F", "G", "H", "I", "J", "K", "L", "M",
                "N", "O", "P", "Q", "R", "S", "T", "U", "V", "W", "X", "Y", "Z">>
AsciiLower == <<"a", "b", "c", "d", "e", "f", "g", "h", "i", "j", "k", "l", "m",
                "n", "o", "p", "q", "r", "s", "t", "u", "v", "w", "x", "y", "z">>

\* u8::to_ascii_lowercase
to_ascii_lowercase_byte(c) ==
    IF \E i \in 1..26 : AsciiUpper[i] = c
    THEN AsciiLower[CHOOSE i \in 1..26 : AsciiUpper[i] = c]
    ELSE c

\* str::to_ascii_lowercase
to_ascii_lowercase(s) == [k \in 1..Len(s) |-> to_ascii_lowercase_byte(s[k])]

\* Variant: bytes are compared exactly
eq_ignore_ascii_case_exact(a, b) == a = b

\* u8::eq_ignore_ascii_case
eq_ignore_ascii_case(a, b) ==
    to_ascii_lowercase_byte(a) = to_ascii_lowercase_byte(b)

\* str::starts_with
starts_with(text, prefix) ==
    Len(prefix) <= Len(text) /\ SubSeq(text, 1, Len(prefix)) = prefix

MatchResult_new(score, indices) == [score |-> score, indices |-> indices]

\* Variant: no bonus for a match at a word start
MatchScore_without_word_start(text_bytes, i, prev_match_idx) ==
    1 + (IF IsSome(prev_match_idx) /\ Unwrap(prev_match_idx) = i - 1
         THEN 10 ELSE 0)

\* What one matched byte at index i adds to the score
MatchScore(text_bytes, i, prev_match_idx) ==
    1 + (IF IsSome(prev_match_idx) /\ Unwrap(prev_match_idx) = i - 1
         THEN 10 ELSE 0)
      + (IF i = 0 THEN 5
         ELSE IF text_bytes[i] \in {"_", " ", "."} THEN 5 ELSE 0)

\* The `for (i, &text_char) in text_bytes.iter().enumerate()` loop;
\* st = [score, indices, pattern_idx, prev_match_idx]
RECURSIVE MatchLoop(_, _, _, _)
MatchLoop(pattern_bytes, text_bytes, i, st) ==
    IF i >= Len(text_bytes) \/ st.pattern_idx >= Len(pattern_bytes) THEN st
    ELSE IF eq_ignore_ascii_case(text_bytes[i + 1],
                                 pattern_bytes[st.pattern_idx + 1])
    THEN MatchLoop(pattern_bytes, text_bytes, i + 1,
            [score |-> st.score + MatchScore(text_bytes, i, st.prev_match_idx),
             indices |-> Append(st.indices, i),
             pattern_idx |-> st.pattern_idx + 1,
             prev_match_idx |-> Some(i)])
    ELSE MatchLoop(pattern_bytes, text_bytes, i + 1, st)

\* Variant: only a prefix of the text matches
subsequence_match_prefix_only(pattern, text) ==
    IF pattern = <<>> THEN Some(MatchResult_new(0, <<>>))
    ELSE IF starts_with(to_ascii_lowercase(text), to_ascii_lowercase(pattern))
    THEN LET st == MatchLoop(pattern, text, 0,
                     [score |-> 20, indices |-> <<>>, pattern_idx |-> 0,
                      prev_match_idx |-> None])
         IN  Some(MatchResult_new(st.score, st.indices))
    ELSE None

subsequence_match(pattern, text) ==
    IF pattern = <<>> THEN Some(MatchResult_new(0, <<>>))
    ELSE LET score0 == IF starts_with(to_ascii_lowercase(text),
                                      to_ascii_lowercase(pattern))
                       THEN 20 ELSE 0
             st == MatchLoop(pattern, text, 0,
                     [score |-> score0, indices |-> <<>>, pattern_idx |-> 0,
                      prev_match_idx |-> None])
         IN  IF st.pattern_idx = Len(pattern)
             THEN Some(MatchResult_new(st.score, st.indices))
             ELSE None

(***************************************************************************)
(* The matcher on its own (specification SpecMatch): subsequence_match is  *)
(* applied to every pattern of at most MaxPatternLen and text of at most   *)
(* MaxMatchLen bytes over MatchAlphabet, and to the pairs of NamedMatches. *)
(***************************************************************************)
MaxPatternLen == 2  \* longest enumerated pattern
MaxMatchLen == 3    \* longest enumerated text

MatchAlphabet == {"a", "A", "b", "_"}

svg == <<"s", "v", "g">>
sgr == <<"s", "g", "r">>
sv_gravity == <<"s", "v", "_", "g", "r", "a", "v", "i", "t", "y">>
saving == <<"s", "a", "v", "i", "n", "g">>

NamedMatches ==
    { <<svg, sv_gravity>>, <<sgr, sv_gravity>>, <<svg, saving>>,
      <<<<"x", "y", "z">>, <<"h", "e", "l", "l", "o">>>>,
      <<<<"S", "V">>, <<"s", "v", "_", "g">>>>,
      <<<<"a", ".", "b">>, <<"a", ".", "b", " ", "b">>>> }

BytesUpTo(n) == UNION {[1..k -> MatchAlphabet] : k \in 0..n}

MatchInputs ==
    (BytesUpTo(MaxPatternLen) \X BytesUpTo(MaxMatchLen)) \cup NamedMatches

MatchCall(matched, score, indices) ==
    [op |-> "subsequence_match", matched |-> matched, score |-> score,
     indices |-> indices]

MatchPattern == input_events[1]
MatchText == input_events[2]

InitMatch ==
    /\ registry = Registry_new
    /\ handlers = Handlers_new
    /\ current_level = User
    /\ aliases = EmptyMap
    /\ \E pair \in MatchInputs : input_events = pair
    /\ pending = EmptyPending
    /\ pc = "match"
    /\ exec = EmptyExec
    /\ output_events = <<>>
    /\ change_events = <<>>
    /\ clear_events = 0
    /\ tracker = EmptyTracker
    /\ invoked = None
    /\ sent = 0
    /\ InitCVarIdle

SubsequenceMatch ==
    /\ pc = "match"
    /\ LET r == subsequence_match(MatchPattern, MatchText) IN
       ret' = Some(IF IsSome(r)
                   THEN MatchCall(TRUE, Unwrap(r).score, Unwrap(r).indices)
                   ELSE MatchCall(FALSE, 0, <<>>))
    /\ UNCHANGED <<registry, handlers, current_level, aliases, input_events,
                   pending, pc, exec, output_events, change_events,
                   clear_events, tracker, invoked, sent, cvar, phase>>

NextMatch == SubsequenceMatch

SpecMatch == InitMatch /\ [][NextMatch]_vars

(***************************************************************************)
(* Search and listing (core/registry.rs fuzzy_find and search; lib.rs the  *)
(* help, cvarlist, find and differences commands).  The commands write     *)
(* their lines to the log; the *_listed operators give the names of the    *)
(* entries they write a line for.  A description is one atom of text.      *)
(***************************************************************************)
\* str::contains
str_contains(text, query) ==
    \E k \in 0..(Len(text) - Len(query)) : Slice(text, k, k + Len(query)) = query

DescriptionText(desc) == IF desc = "" THEN <<>> ELSE <<desc>>

\* ConsoleRegistry::fuzzy_find: the matches as a set of (name, result); the
\* result is sorted by score, then by name
Registry_fuzzy_find(reg, pattern) ==
    {<<name, Unwrap(subsequence_match(pattern, name))>> :
        name \in {n \in DOMAIN reg.entries :
                    /\ ~FlagsContains(reg.entries[n].flags, {HIDDEN})
                    /\ IsSome(subsequence_match(pattern, n))}}

\* ConsoleRegistry::search: the names found; the result is sorted by name
Registry_search(reg, query) ==
    LET query_lower == ToLowercase(query) IN
    {name \in DOMAIN reg.entries :
        /\ ~FlagsContains(reg.entries[name].flags, {HIDDEN})
        /\ \/ str_contains(ToLowercase(name), query_lower)
           \/ str_contains(
                ToLowercase(DescriptionText(reg.entries[name].description)),
                query_lower)}

\* help: with an argument one entry is described, without all commands are
\* listed
Builtin_help_listed(reg, args) ==
    IF IsSome(ArgsGet(args, 0))
    THEN (IF IsSome(Registry_get_entry(reg, Unwrap(ArgsGet(args, 0))))
          THEN {Unwrap(ArgsGet(args, 0))} ELSE {})
    ELSE Registry_cmds(reg)

Builtin_cvarlist_listed(reg, args) ==
    LET prefix == UnwrapOr(ArgsGet(args, 0), <<>>) IN
    {name \in Registry_vars(reg) :
        /\ starts_with(name, prefix)
        /\ ~FlagsContains(reg.entries[name].flags, {HIDDEN})}

Builtin_find_listed(reg, args) ==
    IF IsSome(ArgsGet(args, 0))
    THEN Registry_search(reg, Unwrap(ArgsGet(args, 0)))
    ELSE {}

Builtin_differences_listed(reg, args) == Registry_modified_vars(reg)

(***************************************************************************)
(* Search and listing on their own (specification SpecListing): the        *)
(* registry after startup, where the host's command god_mode and variable  *)
(* test_var are each registered with or without HIDDEN; the host sets and  *)
(* resets test_var and the searches and listings are taken.                *)
(***************************************************************************)
ListingFlags == {FlagsNONE, {HIDDEN}}

ListingQueries ==
    {<<>>, god_mode, test_var,
     <<"Enable cheat-protected commands and variables">>}

ListingCall(op, arg, names) == [op |-> op, arg |-> arg, names |-> names]

InitListing ==
    /\ \E cmd_flags \in ListingFlags, var_flags \in ListingFlags :
            LET s0 == Startup(cmd_flags, User, var_flags, User) IN
            /\ registry = s0.reg
            /\ handlers = s0.hs
    /\ current_level = Server
    /\ aliases = EmptyMap
    /\ input_events = <<>>
    /\ pending = EmptyPending
    /\ pc = "listing"
    /\ exec = EmptyExec
    /\ output_events = <<>>
    /\ change_events = <<>>
    /\ clear_events = 0
    /\ tracker = EmptyTracker
    /\ invoked = None
    /\ sent = 0
    /\ InitCVarIdle

ListingUnchanged ==
    UNCHANGED <<handlers, current_level, aliases, input_events, pending, pc,
                exec, output_events, change_events, clear_events, tracker,
                invoked, sent, cvar, phase>>

ListingSet(value) ==
    /\ pc = "listing"
    /\ registry' = Registry_set(registry, "i32", test_var, value).reg
    /\ ret' = None
    /\ ListingUnchanged

ListingReset ==
    /\ pc = "listing"
    /\ registry' = Registry_reset(registry, test_var).reg
    /\ ret' = None
    /\ ListingUnchanged

ListingFuzzyFind(pattern) ==
    /\ pc = "listing"
    /\ ret' = Some(ListingCall("fuzzy_find", pattern,
                {m[1] : m \in Registry_fuzzy_find(registry, pattern)}))
    /\ registry' = registry
    /\ ListingUnchanged

ListingSearch(query) ==
    /\ pc = "listing"
    /\ ret' = Some(ListingCall("search", query, Registry_search(registry, query)))
    /\ registry' = registry
    /\ ListingUnchanged

ListingHelp ==
    /\ pc = "listing"
    /\ ret' = Some(ListingCall("help", <<>>, Builtin_help_listed(registry, <<>>)))
    /\ registry' = registry
    /\ ListingUnchanged

ListingCvarlist(args) ==
    /\ pc = "listing"
    /\ ret' = Some(ListingCall("cvarlist", UnwrapOr(ArgsGet(args, 0), <<>>),
                               Builtin_cvarlist_listed(registry, args)))
    /\ registry' = registry
    /\ ListingUnchanged

ListingFind(query) ==
    /\ pc = "listing"
    /\ ret' = Some(ListingCall("find", query,
                               Builtin_find_listed(registry, <<query>>)))
    /\ registry' = registry
    /\ ListingUnchanged

ListingDifferences ==
    /\ pc = "listing"
    /\ ret' = Some(ListingCall("differences", <<>>,
                               Builtin_differences_listed(registry, <<>>)))
    /\ registry' = registry
    /\ ListingUnchanged

NextListing ==
    \/ \E value \in HostValues : ListingSet(value)
    \/ ListingReset
    \/ \E pattern \in ListingQueries : ListingFuzzyFind(pattern)
    \/ \E query \in ListingQueries : ListingSearch(query)
    \/ ListingHelp
    \/ \E args \in {<<>>, <<test_var>>} : ListingCvarlist(args)
    \/ \E query \in ListingQueries : ListingFind(query)
    \/ ListingDifferences

SpecListing == InitListing /\ [][NextListing]_vars

(***************************************************************************)
(* Value types on their own (specification SpecValue): parse and format of *)
(* bool, i32, i64 and String are applied to texts and to values.           *)
(* input_events holds <<type, "text" or "value", the text or the value>>.  *)
(***************************************************************************)
MaxNumLen == 2      \* longest enumerated numeric text, in characters

NumAlphabet == {"-", "+", "0", "1", "9", "a"}

I32_MAX_DIGITS == <<"2", "1", "4", "7", "4", "8", "3", "6", "4", "7">>
I32_MIN_DIGITS == <<"2", "1", "4", "7", "4", "8", "3", "6", "4", "8">>

NumTexts ==
    UNION {[1..n -> NumAlphabet] : n \in 0..MaxNumLen}
    \cup { <<"0", "0", "7">>, <<"-", "0", "1", "0">>, <<"+", "1", "9">>,
           I32_MAX_DIGITS, I32_MIN_DIGITS,
           <<"-">> \o I32_MAX_DIGITS, <<"-">> \o I32_MIN_DIGITS,
           I64_MAX_DIGITS, I64_MIN_DIGITS,
           <<"-">> \o I64_MAX_DIGITS, <<"-">> \o I64_MIN_DIGITS,
           <<"1">> \o I64_MAX_DIGITS }

BoolTexts ==
    { <<"true">>, <<"TRUE">>, <<"True">>, <<"1">>, <<"yes">>, <<"YES">>,
      <<"Yes">>, <<"on">>, <<"ON">>, <<"On">>,
      <<"false">>, <<"FALSE">>, <<"False">>, <<"0">>, <<"no">>, <<"NO">>,
      <<"No">>, <<"off">>, <<"OFF">>, <<"Off">>,
      <<>>, <<"2">>, <<"t">>, <<"y">>, <<"enabled">>, <<"1", "0">>,
      <<"true", " ">>, <<" ", "1">>, <<"-", "1">> }

StringTexts == { <<>>, <<"abc">>, <<"a", " ", "b">>, <<DQ, "x", DQ>>, <<"1">> }

ValueTypes == {"bool", "i32", "i64", "string"}

ValueTexts(ty) ==
    CASE ty = "bool" -> BoolTexts
      [] ty = "i32" -> NumTexts
      [] ty = "i64" -> NumTexts
      [] ty = "string" -> StringTexts

ValuesOf(ty) ==
    CASE ty = "bool" -> {TRUE, FALSE}
      [] ty = "i32" -> {I32_MIN, I32_MIN + 1, 0 - 10, 0 - 1, 0, 1, 9, 10, 100,
                        I32_MAX - 1, I32_MAX}
      [] ty = "i64" -> { [neg |-> FALSE, mag |-> <<"0">>],
                         [neg |-> FALSE, mag |-> <<"1", "9">>],
                         [neg |-> TRUE, mag |-> <<"1">>],
                         [neg |-> FALSE, mag |-> I64_MAX_DIGITS],
                         [neg |-> TRUE, mag |-> I64_MIN_DIGITS] }
      [] ty = "string" -> StringTexts

ValueType == input_events[1]
ValueKind == input_events[2]
ValueInput == input_events[3]

ValueCall(op, out) == [op |-> op, out |-> out]

InitValue ==
    /\ registry = Registry_new
    /\ handlers = Handlers_new
    /\ current_level = User
    /\ aliases = EmptyMap
    /\ \E ty \in ValueTypes :
          \/ \E s \in ValueTexts(ty) : input_events = <<ty, "text", s>>
          \/ \E v \in ValuesOf(ty) : input_events = <<ty, "value", v>>
    /\ pending = EmptyPending
    /\ pc = "value"
    /\ exec = EmptyExec
    /\ output_events = <<>>
    /\ change_events = <<>>
    /\ clear_events = 0
    /\ tracker = EmptyTracker
    /\ invoked = None
    /\ sent = 0
    /\ InitCVarIdle

ValueUnchanged ==
    UNCHANGED <<registry, handlers, current_level, aliases, input_events,
                pending, pc, exec, output_events, change_events, clear_events,
                tracker, invoked, sent, cvar, phase>>

\* T::parse(s)
ValueParse ==
    /\ pc = "value" /\ ValueKind = "text"
    /\ ret' = Some(ValueCall("parse", Parse(ValueType, ValueInput)))
    /\ ValueUnchanged

\* T::parse(&T::parse(s)?.format())
ValueReparse ==
    /\ pc = "value" /\ ValueKind = "text"
    /\ IsSome(Parse(ValueType, ValueInput))
    /\ ret' = Some(ValueCall("reparse",
                Parse(ValueType,
                      Format(ValueType, Unwrap(Parse(ValueType, ValueInput))))))
    /\ ValueUnchanged

\* v.format()
ValueFormat ==
    /\ pc = "value" /\ ValueKind = "value"
    /\ ret' = Some(ValueCall("format", Format(ValueType, ValueInput)))
    /\ ValueUnchanged

\* T::parse(&v.format())
ValueRoundTrip ==
    /\ pc = "value" /\ ValueKind = "value"
    /\ ret' = Some(ValueCall("round_trip",
                Parse(ValueType, Format(ValueType, ValueInput))))
    /\ ValueUnchanged

NextValue == ValueParse \/ ValueReparse \/ ValueFormat \/ ValueRoundTrip

SpecValue == InitValue /\ [][NextValue]_vars

(***************************************************************************)
(* The pipeline with the persistence commands (feature "persist") and a   *)
(* host that has registered mk_cmd, whose handler registers a command, and *)
(* the metadata of ghost without a handler                                 *)
(***************************************************************************)
exec_cmd == <<"exec">>
mk_cmd == <<"mk_cmd">>
ghost == <<"ghost">>
none_cfg == <<"none.cfg">>

\* exec is the persistence command whose body is modelled; host_writeconfig,
\* alias and unalias are registered and not invoked here
PersistCommandNames == <<"exec", "host_writeconfig", "alias", "unalias">>

RECURSIVE RegisterPersistFrom(_, _, _)
RegisterPersistFrom(reg, hs, k) ==
    IF k > Len(PersistCommandNames) THEN [reg |-> reg, hs |-> hs]
    ELSE LET kind == PersistCommandNames[k]
             r == Console_register_cmd(reg, hs,
                      ConCommand_new(<<kind>>, HandlerOf(kind)))
         IN  RegisterPersistFrom(r.reg, r.hs, k + 1)

register_persist_commands(reg, hs) == RegisterPersistFrom(reg, hs, 1)

\* The host registers mk_cmd through the Console
HostRegistersMkCmd(s) ==
    Console_register_cmd(s.reg, s.hs,
        ConCommand_new(mk_cmd, HandlerOf("register_cmd")))

\* The host registers the metadata of ghost in the registry alone
HostRegistersGhost(s) ==
    [reg |-> Registry_register_cmd_meta(s.reg,
                 ConCommand_split(ConCommand_new(ghost, HandlerOf("count"))).meta).reg,
     hs |-> s.hs]

PersistCommandsOn(s) == register_persist_commands(s.reg, s.hs)

StartupScript ==
    HostRegistersGhost(HostRegistersMkCmd(PersistCommandsOn(
        Startup(FlagsNONE, User, FlagsNONE, User))))

ScriptLines ==
    { mk_cmd,
      made_cmd,
      ghost,
      exec_cmd,
      Line(<<exec_cmd, none_cfg>>),
      Line(<<exec_cmd, ok_cfg>>),
      Line(<<exec_cmd, split_cfg>>),
      Line(<<exec_cmd, bad_cfg>>),
      Line(<<alias_q, <<SQ, DQ, SQ>>>>),
      Line(<<test_var, <<"1">>>>) }

InitScript ==
    /\ \E s0 \in {StartupScript} :
            /\ registry = s0.reg
            /\ handlers = s0.hs
    /\ current_level = Server
    /\ aliases = HostAliases
    /\ input_events = <<>>
    /\ pending = EmptyPending
    /\ pc = "idle"
    /\ exec = EmptyExec
    /\ output_events = <<>>
    /\ change_events = <<>>
    /\ clear_events = 0
    /\ tracker = EmptyTracker
    /\ invoked = None
    /\ sent = 0
    /\ InitCVarIdle

NextScript ==
    \/ \E line \in ScriptLines : SendInput(line)
    \/ Pipeline

SpecScript == InitScript /\ [][NextScript]_vars

(***************************************************************************)
(* The terminal backend (terminal.rs): a thread reads stdin and sends the  *)
(* lines over an mpsc channel; read_stdin, a system of the Update          *)
(* schedule, drains the channel into ConsoleInputEvent messages, which     *)
(* Stage 1 reads.  cvar holds the thread's stdin, ret the channel.         *)
(***************************************************************************)
MaxStdinLines == 3  \* lines arriving on stdin in one run

StdinLines == { <<"a">>, <<" ", "a", " ">>, <<"b">>, <<>>, <<" ">> }

StdinInputs ==
    UNION { [1..n -> StdinLines] : n \in 0..MaxStdinLines }

stdin == cvar.stdin
lines_read == cvar.read
channel == ret

\* Variant: blank lines are sent too
StdinReader_line_unfiltered(chan, line) == Append(chan, Trim(line))

\* The body of `for line in handle.lines().flatten()`; the receiver lives in
\* a resource, so send does not fail
StdinReader_line(chan, line) ==
    LET text == Trim(line) IN
    IF text # <<>> THEN Append(chan, text) ELSE chan

InitTerminal ==
    /\ LET s0 == Startup(FlagsNONE, User, FlagsNONE, User) IN
       /\ registry = s0.reg
       /\ handlers = s0.hs
    /\ current_level = Server
    /\ aliases = EmptyMap
    /\ input_events = <<>>
    /\ pending = EmptyPending
    /\ pc = "term_idle"
    /\ exec = EmptyExec
    /\ output_events = <<>>
    /\ change_events = <<>>
    /\ clear_events = 0
    /\ tracker = EmptyTracker
    /\ invoked = None
    /\ sent = 0
    /\ \E s \in StdinInputs : cvar = [stdin |-> s, read |-> <<>>]
    /\ phase = "none"
    /\ ret = <<>>

\* The reader thread handles one line; it runs at any time
StdinReaderStep ==
    /\ stdin # <<>>
    /\ cvar' = [stdin |-> Tail(stdin), read |-> Append(lines_read, Head(stdin))]
    /\ ret' = StdinReader_line(channel, Head(stdin))
    /\ UNCHANGED <<pipelineVars, phase>>

\* read_stdin is scheduled and locks the receiver
ReadStdinLock ==
    /\ pc = "term_idle"
    /\ pc' = "reading"
    /\ UNCHANGED <<registry, handlers, current_level, aliases, input_events,
                   pending, exec, output_events, change_events, clear_events,
                   tracker, invoked, sent, cvar, phase, ret>>

\* `while let Ok(line) = rx.try_recv()`: one received line is written
ReadStdinRecv ==
    /\ pc = "reading"
    /\ channel # <<>>
    /\ input_events' = Append(input_events, Head(channel))
    /\ ret' = Tail(channel)
    /\ UNCHANGED <<registry, handlers, current_level, aliases, pending, pc,
                   exec, output_events, change_events, clear_events, tracker,
                   invoked, sent, cvar, phase>>

\* try_recv finds the channel empty and read_stdin returns
ReadStdinDone ==
    /\ pc = "reading"
    /\ channel = <<>>
    /\ pc' = "term_idle"
    /\ UNCHANGED <<registry, handlers, current_level, aliases, input_events,
                   pending, exec, output_events, change_events, clear_events,
                   tracker, invoked, sent, cvar, phase, ret>>

\* parse_console_input, which is not ordered against read_stdin, reads the
\* messages written so far
TerminalParse ==
    /\ pc = "term_idle"
    /\ input_events # <<>>
    /\ pending' = ParseEvents(pending, input_events)
    /\ input_events' = <<>>
    /\ UNCHANGED <<registry, handlers, current_level, aliases, pc, exec,
                   output_events, change_events, clear_events, tracker,
                   invoked, sent, cvar, phase, ret>>

NextTerminal ==
    \/ StdinReaderStep
    \/ ReadStdinLock
    \/ ReadStdinRecv
    \/ ReadStdinDone
    \/ TerminalParse

SpecTerminal == InitTerminal /\ [][NextTerminal]_vars

(***************************************************************************)
(* The pipeline with an alias table whose names partly shadow registered   *)
(* entries: god_mode and test_var are registered and also aliases of quit  *)
(***************************************************************************)
ShadowAliases ==
    (god_mode :> <<"quit">>) @@ (test_var :> <<"quit">>)
        @@ (alias_g :> god_mode)

ShadowLines ==
    { god_mode,
      test_var,
      Line(<<test_var, <<"1">>>>),
      alias_g,
      <<"nope">>,
      Line(<<<<"nope">>, <<"1">>>>),
      god_mode \o <<";">> \o <<"nope">> }

InitShadow ==
    /\ \E p \in Profiles :
            LET s0 == Startup(p.cmd_flags, p.cmd_perm, p.var_flags, p.var_perm) IN
            /\ registry = s0.reg
            /\ handlers = s0.hs
    /\ current_level = Server
    /\ aliases = ShadowAliases
    /\ input_events = <<>>
    /\ pending = EmptyPending
    /\ pc = "idle"
    /\ exec = EmptyExec
    /\ output_events = <<>>
    /\ change_events = <<>>
    /\ clear_events = 0
    /\ tracker = EmptyTracker
    /\ invoked = None
    /\ sent = 0
    /\ InitCVarIdle

NextShadow ==
    \/ \E level \in PermissionLevel : SetLevel(level)
    \/ \E line \in ShadowLines : SendInput(line)
    \/ Pipeline

SpecShadow == InitShadow /\ [][NextShadow]_vars

(***************************************************************************)
(* The pipeline with an alias that expands to itself; the systems of the   *)
(* Update schedule run in every frame                                      *)
(***************************************************************************)
loop == <<"loop">>

LoopAliases == (loop :> loop)

LoopLines ==
    { loop,
      god_mode,
      loop \o <<";", " ">> \o god_mode }

InitLoop ==
    /\ LET s0 == Startup(FlagsNONE, User, FlagsNONE, User) IN
       /\ registry = s0.reg
       /\ handlers = s0.hs
    /\ current_level = Server
    /\ aliases = LoopAliases
    /\ input_events = <<>>
    /\ pending = EmptyPending
    /\ pc = "idle"
    /\ exec = EmptyExec
    /\ output_events = <<>>
    /\ change_events = <<>>
    /\ clear_events = 0
    /\ tracker = EmptyTracker
    /\ invoked = None
    /\ sent = 0
    /\ InitCVarIdle

NextLoop ==
    \/ \E line \in LoopLines : SendInput(line)
    \/ Pipeline

\* parse_console_input starting a tick, as seen on pc
BeginTick == pc = "idle" /\ pc' = "parsed"

\* The app runs its Update schedule frame after frame, and in it each of
\* the three systems of the chain
SpecLoop ==
    /\ InitLoop
    /\ [][NextLoop]_vars
    /\ WF_pc(BeginTick)
    /\ WF_vars(ExecuteTake)
    /\ WF_vars(ExecuteStep)
    /\ WF_vars(ExecuteStore)
    /\ WF_vars(SendPendingOutputs)
    /\ WF_vars(EndFrame)

(***************************************************************************)
(* Properties of the pipeline (specification Spec)                         *)
(***************************************************************************)
Stage2Step == pc = "executing" /\ exec.queue # <<>>

Current == Head(exec.queue)

EntryOf(name) == registry.entries[name]

IsCmd(name) == name \in DOMAIN registry.entries /\ EntryOf(name).kind = "Cmd"

IsVar(name) == name \in DOMAIN registry.entries /\ EntryOf(name).kind = "Var"

ValueOf(reg, name) == reg.entries[name].value.value

ErrorAppended(message) ==
    exec'.outputs = Append(exec.outputs, ConsoleOutputEvent("Error", message))

Emitted(level, message) ==
    \E i \in 1..Len(output_events) :
        output_events[i] = ConsoleOutputEvent(level, message)

\* C1: a CHEAT-flagged command's handler runs only if sv_cheats is nonzero
\* when its invocation is executed; with sv_cheats = 0 the invocation is
\* rejected with an Error output and the handler does not run, and with
\* sv_cheats nonzero and sufficient permission the handler runs exactly once.
C1_CheatGate ==
    [][ (Stage2Step /\ IsCmd(Current.name)
            /\ FlagsContains(EntryOf(Current.name).flags, {CHEAT}))
        => IF CheatsEnabled(registry)
           THEN has_permission(current_level, EntryOf(Current.name).required_permission)
                => /\ invoked' = Some(Current.name)
                   /\ Current.name = god_mode => tracker'.count = tracker.count + 1
           ELSE /\ invoked' = None
                /\ tracker' = tracker
                /\ ErrorAppended(MsgCannotExecute(Current.name, ReasonCheats)) ]_vars

\* Witness of C1: at level Admin the CHEAT+Admin command was rejected while
\* sv_cheats was 0 and, after `sv_cheats 1`, ran once.
C1_Witness ==
    /\ pc = "emitted"
    /\ current_level = Admin
    /\ EntryOf(god_mode).flags = {CHEAT}
    /\ EntryOf(god_mode).required_permission = Admin
    /\ Emitted("Error", MsgCannotExecute(god_mode, ReasonCheats))
    /\ ValueOf(registry, sv_cheats) = 1
    /\ tracker.count = 1

C3_NoChangeBelowLevel ==
    [][ pc = "executing"
        => \A n \in Registry_vars(registry) :
               current_level < EntryOf(n).required_permission
               => ValueOf(registry', n) = ValueOf(registry, n) ]_vars

\* C4: while sv_cheats is 0, no Stage 2 step changes the value of a variable
\* flagged CHEAT.
C4_NoCheatChange ==
    [][ pc = "executing"
        => \A n \in Registry_vars(registry) :
               (FlagsContains(EntryOf(n).flags, {CHEAT}) /\ ~CheatsEnabled(registry))
               => ValueOf(registry', n) = ValueOf(registry, n) ]_vars

\* C5: every Stage 2 step that returns (normally or after a caught panic)
\* leaves the Handler Store exactly as it was: the taken handler is back
\* under its name and no entry is missing.
C5_HandlerRestored ==
    [][ (pc = "executing" /\ pc' # "exited") => handlers' = handlers ]_vars

\* Witness of C5: a handler has just panicked and is in the store.
C5_Witness ==
    /\ pc = "executing"
    /\ invoked = Some(boom)
    /\ boom \in DOMAIN handlers.handlers
    /\ handlers.handlers[boom] = HandlerOf("panic")

\* C6: a panicking handler adds exactly one Error output naming the command
\* and the panic message after the outputs already produced, changes nothing
\* else, and leaves the rest of the batch queued for execution in order.
C6_PanicIsolated ==
    [][ (Stage2Step /\ IsCmd(Current.name)
            /\ Current.name \in DOMAIN handlers.handlers
            /\ handlers.handlers[Current.name].kind = "panic"
            /\ ~IsSome(check_access(registry, current_level,
                                    EntryOf(Current.name).flags,
                                    EntryOf(Current.name).required_permission)))
        => /\ ErrorAppended(MsgPanicked(Current.name, PanicMessage))
           /\ exec'.queue = Tail(exec.queue)
           /\ exec'.changes = exec.changes
           /\ pc' = "executing"
           /\ UNCHANGED <<registry, handlers, pending, tracker>> ]_vars

\* Witness of C6: the single line `boom;god_mode` was processed: the panic
\* was reported and god_mode, queued after it, ran in the same tick.
C6_Witness ==
    /\ pc = "emitted"
    /\ sent = 1
    /\ Emitted("Error", MsgPanicked(boom, PanicMessage))
    /\ tracker.count = 1

\* C10: a READ_ONLY variable keeps the value it was registered with under
\* every step (console lines, toggle, reset, Registry set / set_string /
\* reset), and set and set_string on it return false.
C10_ReadOnlyFrozen ==
    [][ (IsVar(test_var) /\ FlagsContains(EntryOf(test_var).value.flags, {READ_ONLY}))
        => /\ registry'.entries[test_var] = registry.entries[test_var]
           /\ ValueOf(registry', test_var) = TestDefault
           /\ ((\E v \in HostValues : HostSet(v) \/ HostSetString(FormatI32(v)))
                  => ret' = Some(FALSE)) ]_vars

\* Witness of C10: on the READ_ONLY variable a Registry set has returned
\* false and a console `test_var 1` line has been refused.
C10_Witness ==
    /\ pc = "emitted"
    /\ FlagsContains(EntryOf(test_var).value.flags, {READ_ONLY})
    /\ ret = Some(FALSE)
    /\ Emitted("Error", MsgCannotSet(test_var, ReasonInvalid))
    /\ ValueOf(registry, test_var) = TestDefault

(***************************************************************************)
(* Properties of the Console facade (specification SpecConsole)            *)
(***************************************************************************)
\* C7: after any sequence of Console.register_var and Console.register_cmd
\* calls the names with a handler in the Handler Store are exactly the names
\* whose Registry entry is a command.
C7_HandlersMatchCommands ==
    pc = "console" => DOMAIN handlers.handlers = Registry_cmds(registry)

(***************************************************************************)
(* Properties of the Typed Variable (specification SpecConVar)             *)
(***************************************************************************)
HasBothOrdered(cv) ==
    (IsSome(cv.min) /\ IsSome(cv.max)) => Unwrap(cv.min) <= Unwrap(cv.max)

WithinBounds(cv) ==
    /\ IsSome(cv.min) => cv.value >= Unwrap(cv.min)
    /\ IsSome(cv.max) => cv.value <= Unwrap(cv.max)

\* C8: for a variable with bounds (here even only those with min <= max),
\* after construction with the builder calls in any order and after any
\* sequence of set, set_string and reset, the current value lies within
\* [min,max].
C8_ValueWithinBounds ==
    (phase \in {"building", "live"} /\ ConVar_has_bounds(cvar)
        /\ HasBothOrdered(cvar))
    => WithinBounds(cvar)

\* The saturation C9 describes
Saturation(v, min, max) ==
    IF IsSome(min) /\ v < Unwrap(min) THEN Unwrap(min)
    ELSE IF IsSome(max) /\ v > Unwrap(max) THEN Unwrap(max)
    ELSE v

\* C9: on a non-READ_ONLY variable with bounds, set(v) and set_string(s)
\* with a parsable s return true and store the saturation of the given
\* value (min if below min, max if above max, else the value itself), so
\* the stored value is within [min,max] afterwards.
C9_SetSaturates ==
    [][ (phase = "live" /\ ConVar_has_bounds(cvar)
            /\ ~FlagsContains(cvar.flags, {READ_ONLY}))
        => \A v \in CVarValues :
               (CVarSet(v) \/ CVarSetString(FormatI32(v)))
               => /\ ret' = Some(TRUE)
                  /\ cvar'.value = Saturation(v, cvar.min, cvar.max)
                  /\ WithinBounds(cvar') ]_vars

\* C11: right after construction with any builder calls, and after
\* registration, is_modified() is false and modified_vars() does not
\* contain the variable.
C11_UnmodifiedWhenBuilt ==
    phase = "building"
    => /\ ~ConVar_is_modified(cvar)
       /\ cvar.name \notin
              Registry_modified_vars(Registry_register_var(Registry_new, cvar).reg)

(***************************************************************************)
(* Properties of registration (specification SpecConsole)                  *)
(***************************************************************************)
\* C12: the first registration of a name returns is_new = true; registering
\* a name that is already registered, as either kind, returns false, leaves
\* len unchanged and replaces the entry, so that get_entry, get, get_string,
\* vars and cmds show only the second registration.
C12_OneNamespace ==
    [][ /\ \A name \in ConsoleNames, default \in {0, 1} :
               ConsoleRegisterVar(name, default)
               => /\ ret' = Some(~Registry_contains(registry, name))
                  /\ Registry_contains(registry, name)
                         => Registry_len(registry') = Registry_len(registry)
                  /\ Registry_get_entry(registry', name)
                         = Some(EntryVar(ConVar_new(name, "i32", default)))
                  /\ Registry_get(registry', "i32", name) = Some(default)
                  /\ Registry_get_string(registry', name) = Some(FormatI32(default))
                  /\ name \in Registry_vars(registry')
                  /\ name \notin Registry_cmds(registry')
        /\ \A name \in ConsoleNames, kind \in ConsoleHandlerKinds :
               ConsoleRegisterCmd(name, kind)
               => /\ ret' = Some(~Registry_contains(registry, name))
                  /\ Registry_contains(registry, name)
                         => Registry_len(registry') = Registry_len(registry)
                  /\ Registry_get_entry(registry', name)
                         = Some(EntryCmd(ConCommand_split(
                                    ConCommand_new(name, HandlerOf(kind))).meta))
                  /\ Registry_get(registry', "i32", name) = None
                  /\ Registry_get_string(registry', name) = None
                  /\ name \in Registry_cmds(registry')
                  /\ name \notin Registry_vars(registry') ]_vars

\* Witness of C12: a name first registered as a command has been registered
\* again as a variable with default 1; the call returned false.
C12_Witness ==
    /\ pc = "console"
    /\ ret = Some(FALSE)
    /\ god_mode \in DOMAIN handlers.handlers
    /\ Registry_get(registry, "i32", god_mode) = Some(1)
    /\ Registry_len(registry) = 2

(***************************************************************************)
(* Properties of the Registry API (specification SpecRegistry)             *)
(***************************************************************************)
IsAbsentOrCmd(name) ==
    name \notin DOMAIN registry.entries \/ registry.entries[name].kind = "Cmd"

\* C13: get and get_string return None, set and set_string return false,
\* when the name is absent, names a command, holds a variable of another
\* type than requested, or the variable rejects the set (READ_ONLY, or an
\* unparsable string); every failing call leaves the registry as it was.
C13_FailureIsNone ==
    [][ (pc = "registry" /\ IsSome(ret'))
        => LET c == Unwrap(ret')
               rejected ==
                   IF IsAbsentOrCmd(c.name) THEN TRUE
                   ELSE LET cv == registry.entries[c.name].value IN
                        CASE c.op = "get" -> cv.ty # c.ty
                          [] c.op = "get_string" -> FALSE
                          [] c.op = "set" ->
                                 cv.ty # c.ty \/ FlagsContains(cv.flags, {READ_ONLY})
                          [] c.op = "set_string" ->
                                 \/ FlagsContains(cv.flags, {READ_ONLY})
                                 \/ ~IsSome(Parse(cv.ty, c.arg))
           IN  /\ rejected => ~c.ok
               /\ ~c.ok => registry' = registry ]_vars

\* Witness of C13: set::<bool> on the i32 variable has returned false.
C13_Witness ==
    /\ pc = "registry"
    /\ IsSome(ret)
    /\ Unwrap(ret) = Call("set", "bool", test_var, FormatBool(TRUE), FALSE)
    /\ Registry_get(registry, "i32", test_var) = Some(TestDefault)

(***************************************************************************)
(* Properties of reading and setting variables through the console         *)
(* (specifications SpecShell and Spec)                                     *)
(***************************************************************************)
Approved(name) ==
    /\ FlagsContains(EntryOf(name).flags, {CHEAT}) => ValueOf(registry, sv_cheats) # 0
    /\ current_level >= EntryOf(name).required_permission

\* C14: for an approved `name arg...` on a variable the new value text is
\* the arguments joined by single spaces; on success exactly one Result
\* output with the stored (clamped) value and exactly one change
\* notification with the value before and after are produced; on failure
\* (parse error or READ_ONLY) exactly one Error output is produced, the value
\* is retained and no change notification is produced.
C14_SetOutcome ==
    [][ (Stage2Step /\ IsVar(Current.name) /\ Current.args # <<>>
            /\ Approved(Current.name))
        => LET cv == EntryOf(Current.name).value
               parsed == Parse(cv.ty, Join(Current.args, <<" ">>))
           IN  IF IsSome(parsed) /\ ~FlagsContains(cv.flags, {READ_ONLY})
               THEN LET stored == Clamp(cv.ty, Unwrap(parsed), cv.min, cv.max) IN
                    /\ ValueOf(registry', Current.name) = stored
                    /\ exec'.outputs = Append(exec.outputs,
                           ConsoleOutputEvent("Result",
                               MsgValue(Current.name, Format(cv.ty, stored))))
                    /\ exec'.changes = Append(exec.changes,
                           ConVarChangedEvent(Current.name,
                               Format(cv.ty, cv.value), Format(cv.ty, stored)))
               ELSE /\ ErrorAppended(MsgCannotSet(Current.name, ReasonInvalid))
                    /\ registry' = registry
                    /\ exec'.changes = exec.changes ]_vars

\* Witness of C14: `sv_cheats 3` was processed: the Result output and the
\* change notification carry the clamped value 1.
C14_Witness ==
    /\ pc = "emitted"
    /\ ValueOf(registry, sv_cheats) = 1
    /\ Emitted("Result", MsgValue(sv_cheats, <<"1">>))
    /\ \E i \in 1..Len(change_events) :
           change_events[i] = ConVarChangedEvent(sv_cheats, <<"0">>, <<"1">>)

\* C15: an invocation naming a variable with no arguments always emits a
\* Result output with the current value, followed by a description line when
\* the description is non-empty, at every permission level and sv_cheats
\* value, and changes no variable.
C15_ReadUngated ==
    [][ (Stage2Step /\ IsVar(Current.name) /\ Current.args = <<>>)
        => LET cv == EntryOf(Current.name).value
               result == ConsoleOutputEvent("Result",
                             MsgValue(Current.name, Format(cv.ty, cv.value)))
           IN  /\ registry' = registry
               /\ exec'.changes = exec.changes
               /\ exec'.outputs =
                      IF EntryOf(Current.name).description = ""
                      THEN Append(exec.outputs, result)
                      ELSE exec.outputs \o
                           <<result,
                             ConsoleOutputEvent("Info",
                                 MsgDescription(EntryOf(Current.name).description))>> ]_vars

\* Witness of C15: at level User, with sv_cheats 0, the CHEAT variable that
\* requires Admin has been read.
C15_Witness ==
    /\ pc = "emitted"
    /\ current_level = User
    /\ ValueOf(registry, sv_cheats) = 0
    /\ FlagsContains(EntryOf(test_var).flags, {CHEAT})
    /\ EntryOf(test_var).required_permission = Admin
    /\ Emitted("Result", MsgValue(test_var, <<"2">>))

\* C16: an invocation that fails a gate yields exactly one Error output with
\* the reason of the first failing gate (the CHEAT gate's when both fail; a
\* permission reason names the required and the current level), runs no
\* handler and changes no variable.
C16_FirstGateReported ==
    [][ (Stage2Step /\ Current.name \in DOMAIN registry.entries
            /\ (IsVar(Current.name) => Current.args # <<>>))
        => LET e == EntryOf(Current.name)
               cheat_fails == FlagsContains(e.flags, {CHEAT})
                                  /\ ValueOf(registry, sv_cheats) = 0
               level_fails == current_level < e.required_permission
               reason == IF cheat_fails
                         THEN <<"Requires sv_cheats to be enabled">>
                         ELSE <<"Insufficient permission",
                                PermissionName(e.required_permission),
                                PermissionName(current_level)>>
           IN  (cheat_fails \/ level_fails)
               => /\ ErrorAppended(IF e.kind = "Cmd"
                                   THEN MsgCannotExecute(Current.name, reason)
                                   ELSE MsgCannotSet(Current.name, reason))
                  /\ invoked' = None
                  /\ UNCHANGED <<registry, handlers, tracker>> ]_vars

\* Witness of C16: god_mode, CHEAT and Admin-only, has just been rejected at
\* level User with sv_cheats 0; the reason is the CHEAT gate's.
C16_Witness ==
    /\ pc = "executing"
    /\ current_level = User
    /\ ValueOf(registry, sv_cheats) = 0
    /\ EntryOf(god_mode).flags = {CHEAT}
    /\ EntryOf(god_mode).required_permission = Admin
    /\ invoked = None
    /\ exec.outputs # <<>>
    /\ exec.outputs[Len(exec.outputs)] =
           ConsoleOutputEvent("Error", MsgCannotExecute(god_mode, ReasonCheats))

\* C17: every change of a variable's value made by a Stage 2 step (a direct
\* set as well as toggle and reset) comes with a change notification for
\* that variable carrying the old and the new value.
C17_ChangeNotified ==
    [][ pc = "executing"
        => \A n \in Registry_vars(registry) :
               ValueOf(registry', n) # ValueOf(registry, n)
               => exec'.changes = Append(exec.changes,
                      ConVarChangedEvent(n,
                          ConVar_get_string(registry.entries[n].value),
                          ConVar_get_string(registry'.entries[n].value))) ]_vars

(***************************************************************************)
(* Properties of alias expansion (specification SpecAlias)                 *)
(***************************************************************************)
IsAliasStep ==
    /\ Stage2Step
    /\ Current.name \notin DOMAIN registry.entries
    /\ Current.name \in DOMAIN aliases

\* C18: an invocation whose name is only an alias dispatches nothing in that
\* pass (no handler, no output, no unknown-name error); its expansion is
\* enqueued, and the next tick's Stage 2 takes it from the queue.
C18_AliasDeferred ==
    [][ /\ IsAliasStep
           => /\ invoked' = None
              /\ exec'.outputs = exec.outputs
              /\ UNCHANGED <<registry, handlers, tracker>>
              /\ Len(pending'.queue) = Len(pending.queue) + 1
              /\ pending'.queue[Len(pending'.queue)].name
                     = tokenize(aliases[Current.name]).val.command
        /\ (pc = "parsed" /\ pending.queue # <<>>) => exec'.queue = pending.queue ]_vars

\* C19: an invocation enqueued for an alias carries the alias's own
\* expansion arguments followed by exactly the arguments given to the alias
\* (same number, text and order), and the handler receives the arguments of
\* its invocation.
C19_ArgsPassedThrough ==
    [][ /\ (IsAliasStep /\ Len(pending'.queue) = Len(pending.queue) + 1)
           => pending'.queue[Len(pending'.queue)].args
                  = tokenize(aliases[Current.name]).val.args \o Current.args
        /\ (Stage2Step /\ Current.name = god_mode /\ invoked' = Some(god_mode))
           => tracker'.last_args = Current.args ]_vars

(***************************************************************************)
(* Properties of Intake (specification SpecShell)                          *)
(***************************************************************************)
RECURSIVE AllSubLines(_)
AllSubLines(events) ==
    IF events = <<>> THEN <<>>
    ELSE split_commands(Head(events)) \o AllSubLines(Tail(events))

RECURSIVE IntakeOutputs(_)
IntakeOutputs(subs) ==
    IF subs = <<>> THEN <<>>
    ELSE LET t == tokenize(Head(subs)) IN
         <<ConsoleOutputEvent("Command", MsgEcho(Head(subs)))>>
         \o (IF t.ok THEN <<>>
             ELSE <<ConsoleOutputEvent("Error", MsgParseError(t))>>)
         \o IntakeOutputs(Tail(subs))

RECURSIVE IntakeQueue(_)
IntakeQueue(subs) ==
    IF subs = <<>> THEN <<>>
    ELSE LET t == tokenize(Head(subs)) IN
         (IF t.ok
          THEN <<[raw |-> Head(subs), name |-> t.val.command, args |-> t.val.args]>>
          ELSE <<>>)
         \o IntakeQueue(Tail(subs))

\* C20: Intake echoes every sub-line of every input line as a Command
\* output; a sub-line that fails to tokenize gets exactly one Error output
\* right after its echo and is not enqueued; all other sub-lines of the
\* batch are enqueued, and Stage 2 takes all of them for execution.
C20_IntakeSkipsOnlyFailures ==
    [][ /\ pc = "idle" /\ pc' = "parsed"
           => /\ pending'.outputs =
                     pending.outputs \o IntakeOutputs(AllSubLines(input_events))
              /\ pending'.queue =
                     pending.queue \o IntakeQueue(AllSubLines(input_events))
        /\ (pc = "parsed" /\ pc' = "executing")
           => /\ exec'.queue = pending.queue
              /\ exec'.outputs = pending.outputs
        /\ Stage2Step => exec'.queue = Tail(exec.queue) ]_vars

\* Witness of C20: the single line `god_mode; echo "` was processed: the
\* second sub-line's echo is followed by the parse error, and god_mode ran.
C20_Witness ==
    /\ pc = "emitted"
    /\ sent = 1
    /\ tracker.count = 1
    /\ \E i \in 1..(Len(output_events) - 1) :
           /\ output_events[i] =
                  ConsoleOutputEvent("Command", MsgEcho(<<"echo", " ", DQ>>))
           /\ output_events[i + 1].level = "Error"

(***************************************************************************)
(* Properties of the tokenizer (specification SpecText).  The expected     *)
(* results are spelled out from the quoting rules: Escaped, ClosingQuote   *)
(* and Spans describe the tokens of a text, QuoteState the quote state of  *)
(* split_commands.                                                         *)
(***************************************************************************)
IsQuote(c) == c = DQ \/ c = SQ

\* The character at offset k of the quoted run opened at offset open is
\* escaped: the character before it is an unescaped backslash of the run.
RECURSIVE Escaped(_, _, _)
Escaped(s, open, k) ==
    /\ k > open + 1
    /\ s[k] = BS
    /\ ~Escaped(s, open, k - 1)

\* Offset of the quote that closes the run opened at offset open, or -1
ClosingQuote(s, open) ==
    LET closing == {j \in (open + 1)..(Len(s) - 1) :
                        s[j + 1] = s[open + 1] /\ ~Escaped(s, open, j)}
    IN  IF closing = {} THEN 0 - 1
        ELSE CHOOSE j \in closing : \A i \in closing : j <= i

\* End offset of the maximal run of non-whitespace, non-quote characters
\* that starts at offset p
RunEnd(s, p) ==
    LET stops == {e \in (p + 1)..Len(s) :
                      e = Len(s) \/ IsWhitespace(s[e + 1]) \/ IsQuote(s[e + 1])}
    IN  CHOOSE e \in stops : \A i \in stops : e <= i

\* The tokens of s from offset p on, as spans [quoted, open, from, to) ;
\* an unterminated quoted run is the last span and has to = -1.
RECURSIVE Spans(_, _)
Spans(s, p) ==
    IF p >= Len(s) THEN <<>>
    ELSE IF IsWhitespace(s[p + 1]) THEN Spans(s, p + 1)
    ELSE IF IsQuote(s[p + 1])
    THEN LET close == ClosingQuote(s, p) IN
         IF close < 0
         THEN <<[quoted |-> TRUE, open |-> p, from |-> p + 1, to |-> 0 - 1]>>
         ELSE <<[quoted |-> TRUE, open |-> p, from |-> p + 1, to |-> close]>>
              \o Spans(s, close + 1)
    ELSE <<[quoted |-> FALSE, open |-> p, from |-> p, to |-> RunEnd(s, p)]>>
         \o Spans(s, RunEnd(s, p))

Terminated(spans) == \A k \in 1..Len(spans) : spans[k].to >= 0

SpanTexts(s, spans) ==
    [k \in 1..Len(spans) |-> Slice(s, spans[k].from, spans[k].to)]

HasSlashes(s) == \E k \in 1..(Len(s) - 1) : s[k] = "/" /\ s[k + 1] = "/"

IsTokenized == IsSome(ret) /\ Unwrap(ret).op = "tokenize"

InsideQuotes(s, k) ==
    \E i \in 1..Len(Spans(s, 0)) :
        LET sp == Spans(s, 0)[i] IN
        /\ sp.quoted
        /\ k >= sp.from
        /\ (sp.to < 0 \/ k < sp.to)

\* s without its comment: cut at the first `//` that lies outside quotes
StripComment(s) ==
    LET hits == {k \in 0..(Len(s) - 2) :
                    /\ s[k + 1] = "/" /\ s[k + 2] = "/"
                    /\ ~InsideQuotes(s, k)}
    IN  IF hits = {} THEN s
        ELSE Slice(s, 0, CHOOSE k \in hits : \A j \in hits : k <= j)

\* C22: a `//` truncates the line as a comment only when it occurs outside
\* quotes: whenever the line, cut at its first `//` outside quotes, has
\* properly quoted tokens, tokenize succeeds with exactly those tokens, a
\* `//` inside a quoted run being part of its token.
C22_CommentOutsideQuotes ==
    (pc = "text" /\ IsTokenized) =>
        LET t == Trim(StripComment(Trim(TextLine)))
            spans == Spans(t, 0)
            r == Unwrap(ret)
        IN  (spans # <<>> /\ Terminated(spans)) =>
                /\ r.ok
                /\ r.command = SpanTexts(t, spans)[1]
                /\ r.args = Tail(SpanTexts(t, spans))

LeadingWhitespace(s) == Len(s) - Len(TrimStart(s))

\* C23: for a line with an unterminated quote, leading whitespace or not,
\* tokenize returns UnterminatedString and its position is the offset,
\* within the line passed, of the quote that opened the unterminated run.
\* (Lines without `//`.)
C23_PositionInLine ==
    (pc = "text" /\ IsTokenized /\ ~HasSlashes(TextLine)) =>
        LET t == Trim(TextLine)
            spans == Spans(t, 0)
            r == Unwrap(ret)
        IN  (spans # <<>> /\ ~Terminated(spans)) =>
                /\ r.err = "UnterminatedString"
                /\ r.position =
                       LeadingWhitespace(TextLine) + spans[Len(spans)].open

\* Number of consecutive backslashes that end right before offset i
RECURSIVE BackslashesBefore(_, _)
BackslashesBefore(s, i) ==
    IF i > 0 /\ s[i] = BS THEN 1 + BackslashesBefore(s, i - 1) ELSE 0

\* Quote state in front of offset i: "none", "dq" or "sq"
RECURSIVE QuoteState(_, _)
QuoteState(s, i) ==
    IF i = 0 THEN "none"
    ELSE LET q == QuoteState(s, i - 1)
             c == s[i]
             toggles == BackslashesBefore(s, i - 1) % 2 = 0
         IN  IF c = DQ /\ q # "sq" /\ toggles
             THEN (IF q = "dq" THEN "none" ELSE "dq")
             ELSE IF c = SQ /\ q # "dq" /\ toggles
             THEN (IF q = "sq" THEN "none" ELSE "sq")
             ELSE q

SplitPoints(s) ==
    {i \in 0..(Len(s) - 1) : s[i + 1] = ";" /\ QuoteState(s, i) = "none"}

\* The pieces of s from offset p on, cut at the split points
RECURSIVE PiecesFrom(_, _)
PiecesFrom(s, p) ==
    LET later == {i \in SplitPoints(s) : i >= p} IN
    IF later = {} THEN << Slice(s, p, Len(s)) >>
    ELSE LET i == CHOOSE x \in later : \A y \in later : x <= y
         IN  << Slice(s, p, i) >> \o PiecesFrom(s, i + 1)

TrimmedNonEmpty(pieces) ==
    SelectSeq([k \in 1..Len(pieces) |-> Trim(pieces[k])], LAMBDA p : p # <<>>)

IsSplit == IsSome(ret) /\ Unwrap(ret).op = "split_commands"

\* C24: split_commands splits a line exactly at the `;` characters outside
\* single- and double-quoted runs, a quote character toggling the quote state
\* only after an even number of consecutive backslashes; the pieces are
\* returned trimmed, in their original order, without the empty ones.
C24_SplitOutsideQuotes ==
    (pc = "text" /\ IsSplit) =>
        Unwrap(ret).pieces = TrimmedNonEmpty(PiecesFrom(TextLine, 0))

\* one `;` kept inside quotes after an escaped quote, one `;` splitting
C24_Witness ==
    /\ pc = "text" /\ IsSplit
    /\ TextLine = <<"e", " ", DQ, BS, DQ, ";", DQ, ";", "q">>
    /\ Unwrap(ret).pieces = << <<"e", " ", DQ, BS, DQ, ";", DQ>>, <<"q">> >>

(***************************************************************************)
(* Properties of the Trie (specification SpecTrie)                         *)
(***************************************************************************)
StartsWith(text, prefix) ==
    Len(prefix) <= Len(text) /\ SubSeq(text, 1, Len(prefix)) = prefix

Lookup(map, key) == IF key \in DOMAIN map THEN Some(map[key]) ELSE None

StoredUnder(map, prefix) ==
    {<<k, map[k]>> : k \in {x \in DOMAIN map : StartsWith(x, prefix)}}

\* C25: after any sequence of inserts and removes, prefix_iter(p) yields
\* exactly the (key, value) pairs currently stored whose key starts with p,
\* each exactly once, whatever the iteration order of the children, and
\* nothing for a prefix that no stored key has; a string that is not stored,
\* such as a proper prefix of stored keys, is not found by get.
C25_PrefixIterExact ==
    pc = "trie" =>
        /\ \A p \in TrieProbes, order \in TrieOrders :
                LET items == Trie_prefix_iter(cvar, p, order) IN
                /\ {items[i] : i \in 1..Len(items)} = StoredUnder(trie_map, p)
                /\ Len(items) = Cardinality(StoredUnder(trie_map, p))
        /\ \A k \in TrieProbes : k \notin DOMAIN trie_map => Trie_get(cvar, k) = None

\* only "ab" is stored, "a" is a node on its path: iterating under "a"
\* yields "ab" alone
C25_Witness ==
    /\ pc = "trie"
    /\ DOMAIN trie_map = {<<"a", "b">>}
    /\ <<"a">> \in DOMAIN cvar.nodes
    /\ IsSome(ret) /\ Unwrap(ret).op = "prefix_iter"
    /\ Unwrap(ret).key = <<"a">>
    /\ Len(Unwrap(ret).items) = 1
    /\ Unwrap(ret).items[1][1] = <<"a", "b">>

\* C26: the Trie behaves as a finite map.  After every call, get and
\* contains agree with the most recent insert not undone by remove or clear,
\* len is the number of keys stored, insert returned the previous value of
\* its key and remove the value it removed.
C26_FiniteMap ==
    [][pc' = "trie" =>
        /\ \A k \in TrieProbes :
                /\ Trie_get(cvar', k) = Lookup(trie_map', k)
                /\ Trie_contains(cvar', k) = (k \in DOMAIN trie_map')
        /\ Trie_len(cvar') = Cardinality(DOMAIN trie_map')
        /\ (sent' = sent + 1 /\ Unwrap(ret').op \in {"insert", "remove"}) =>
                Unwrap(ret').result = Lookup(trie_map, Unwrap(ret').key)
      ]_vars

\* "a" inserted twice and removed: the second value comes back, len is 0
\* while the root and the node of "a" remain
C26_Witness ==
    /\ pc = "trie"
    /\ IsSome(ret) /\ Unwrap(ret).op = "remove"
    /\ Unwrap(ret).key = <<"a">>
    /\ Unwrap(ret).result = Some(2)
    /\ Trie_len(cvar) = 0
    /\ Cardinality(DOMAIN cvar.nodes) = 2

(***************************************************************************)
(* Properties of the matcher (specification SpecMatch)                     *)
(***************************************************************************)
\* The upper-case letters that occur in MatchInputs, folded
FoldCase(c) ==
    CASE c = "A" -> "a" [] c = "B" -> "b" [] c = "S" -> "s" [] c = "V" -> "v"
      [] OTHER -> c

\* The ways pattern occurs in text in order: strictly increasing 0-based
\* indices, one per pattern character, equal up to ASCII case
Embeddings(pattern, text) ==
    {f \in [1..Len(pattern) -> 0..(Len(text) - 1)] :
        /\ \A k \in 1..Len(pattern) :
                FoldCase(text[f[k] + 1]) = FoldCase(pattern[k])
        /\ \A k \in 2..Len(pattern) : f[k - 1] < f[k]}

Matched == pc = "match" /\ IsSome(ret)

\* C27: subsequence_match returns a match exactly when every character of
\* the pattern appears in the text in order, compared ASCII-case-
\* insensitively; the indices are strictly increasing, one per pattern
\* character, each the leftmost possible; an empty pattern matches with
\* score 0 and no indices; a pattern longer than the text never matches.
C27_SubsequenceMatch ==
    Matched =>
        LET r == Unwrap(ret)
            fs == Embeddings(MatchPattern, MatchText)
        IN  /\ r.matched <=> fs # {}
            /\ r.matched =>
                /\ Len(r.indices) = Len(MatchPattern)
                /\ \A k \in 2..Len(r.indices) : r.indices[k - 1] < r.indices[k]
                /\ \A f \in fs, k \in 1..Len(r.indices) : r.indices[k] <= f[k]
            /\ MatchPattern = <<>> =>
                r.matched /\ r.score = 0 /\ r.indices = <<>>
            /\ Len(MatchPattern) > Len(MatchText) => ~r.matched

\* "Ab" is found in "a_b" across the case difference and the gap
C27_Witness ==
    /\ Matched
    /\ MatchPattern = <<"A", "b">>
    /\ MatchText = <<"a", "_", "b">>
    /\ Unwrap(ret).matched
    /\ Unwrap(ret).indices = <<0, 2>>

\* C28 as stated: subsequence_match("svg", "sv_gravity") matches with
\* indices [0,3,4], and subsequence_match("xyz", "hello") is no match.
C28_AsStated ==
    Matched =>
        /\ (MatchPattern = svg /\ MatchText = sv_gravity) =>
                Unwrap(ret).matched /\ Unwrap(ret).indices = <<0, 3, 4>>
        /\ (MatchPattern = <<"x", "y", "z">>
                /\ MatchText = <<"h", "e", "l", "l", "o">>) =>
                ~Unwrap(ret).matched

\* C28 (amended): subsequence_match("svg", "sv_gravity") matches with
\* indices [0,1,3] (s, v, g), [0,3,4] being the indices of "sgr", and
\* subsequence_match("xyz", "hello") is no match.
C28_Indices ==
    Matched =>
        /\ (MatchPattern = svg /\ MatchText = sv_gravity) =>
                Unwrap(ret).matched /\ Unwrap(ret).indices = <<0, 1, 3>>
        /\ (MatchPattern = sgr /\ MatchText = sv_gravity) =>
                Unwrap(ret).matched /\ Unwrap(ret).indices = <<0, 3, 4>>
        /\ (MatchPattern = <<"x", "y", "z">>
                /\ MatchText = <<"h", "e", "l", "l", "o">>) =>
                ~Unwrap(ret).matched

C28_Witness ==
    /\ Matched
    /\ MatchPattern = svg /\ MatchText = sv_gravity
    /\ Unwrap(ret).matched
    /\ Len(Unwrap(ret).indices) = 3

\* The score the rules give to a match with the given indices
RuleScore(pattern, text, indices) ==
    Len(indices)
    + (IF /\ Len(pattern) <= Len(text)
          /\ \A k \in 1..Len(pattern) : FoldCase(text[k]) = FoldCase(pattern[k])
       THEN 20 ELSE 0)
    + 10 * Cardinality({k \in 2..Len(indices) : indices[k] = indices[k - 1] + 1})
    + 5 * Cardinality({k \in 1..Len(indices) :
                          \/ indices[k] = 0
                          \/ text[indices[k]] \in {"_", " ", "."}})

\* C29 as stated: the score of every match is the number of matched
\* characters, plus 20 if the text starts with the pattern, plus 10 per
\* adjacent match, plus 5 per match at index 0 or after `_`, space or `.`.
C29_AsStated ==
    (Matched /\ Unwrap(ret).matched) =>
        Unwrap(ret).score =
            RuleScore(MatchPattern, MatchText, Unwrap(ret).indices)

\* C29 (amended): for a non-empty pattern the score of a match is the number
\* of matched characters, plus 20 once if the text starts with the pattern
\* case-insensitively, plus 10 per matched character right after the
\* previous match, plus 5 per matched character at index 0 or after `_`,
\* space or `.` (the empty pattern scores 0); hence "svg" scores higher
\* against "sv_gravity" than against "saving".
C29_Score ==
    (Matched /\ Unwrap(ret).matched) =>
        /\ MatchPattern # <<>> =>
                Unwrap(ret).score =
                    RuleScore(MatchPattern, MatchText, Unwrap(ret).indices)
        /\ MatchPattern = <<>> => Unwrap(ret).score = 0
        /\ (MatchPattern = svg /\ MatchText = sv_gravity) =>
                /\ Unwrap(ret).score = 23
                /\ IsSome(subsequence_match(svg, saving))
                /\ Unwrap(subsequence_match(svg, saving)).score = 8

\* word-start and adjacency bonuses together: "svg" in "sv_gravity"
C29_Witness ==
    /\ Matched
    /\ MatchPattern = svg /\ MatchText = sv_gravity
    /\ Unwrap(ret).score > 20

(***************************************************************************)
(* Properties of search and listing (specification SpecListing)            *)
(***************************************************************************)
\* C30: an entry flagged HIDDEN never appears in the results of fuzzy_find
\* or search, nor among the names listed by help (without argument),
\* cvarlist, find and differences.
C30_HiddenExcluded ==
    (pc = "listing" /\ IsSome(ret)) =>
        \A name \in Unwrap(ret).names :
            ~FlagsContains(registry.entries[name].flags, {HIDDEN})

(***************************************************************************)
(* Properties of the value types (specification SpecValue)                 *)
(***************************************************************************)
TrueTexts ==
    { <<"true">>, <<"TRUE">>, <<"True">>, <<"1">>, <<"yes">>, <<"YES">>,
      <<"Yes">>, <<"on">>, <<"ON">>, <<"On">> }
FalseTexts ==
    { <<"false">>, <<"FALSE">>, <<"False">>, <<"0">>, <<"no">>, <<"NO">>,
      <<"No">>, <<"off">>, <<"OFF">>, <<"Off">> }

\* C31: for bool, i32, i64 and String, parse(format(v)) = v for every value
\* v, and for every text s that parses, parsing the formatted result of
\* parse(s) gives the same value as parse(s); bool parsing accepts exactly
\* true/1/yes/on and false/0/no/off in any case, and bool formats as 1 or 0.
C31_RoundTrip ==
    (pc = "value" /\ IsSome(ret)) =>
        LET r == Unwrap(ret) IN
        /\ r.op = "round_trip" => r.out = Some(ValueInput)
        /\ r.op = "reparse" => r.out = Parse(ValueType, ValueInput)
        /\ (r.op = "parse" /\ ValueType = "bool") =>
                r.out = (IF ValueInput \in TrueTexts THEN Some(TRUE)
                         ELSE IF ValueInput \in FalseTexts THEN Some(FALSE)
                         ELSE None)
        /\ (r.op = "format" /\ ValueType = "bool") =>
                r.out = (IF ValueInput THEN <<"1">> ELSE <<"0">>)

\* the smallest i32 survives format and parse
C31_Witness ==
    /\ pc = "value" /\ IsSome(ret)
    /\ ValueType = "i32" /\ ValueKind = "value" /\ ValueInput = I32_MIN
    /\ Unwrap(ret).op = "round_trip"
    /\ Unwrap(ret).out = Some(I32_MIN)

(***************************************************************************)
(* Properties of handlers that change the console (specification          *)
(* SpecScript)                                                             *)
(***************************************************************************)
HasHandler(hs, name) == name \in DOMAIN hs.handlers

\* C32: a handler that registers a new command during its own invocation
\* completes without failure (no panic report, the process goes on), leaves
\* the new command with metadata in the registry and a handler in the
\* handler store, and a later invocation of the new name runs that handler.
C32_HandlerMayRegister ==
    [][ /\ (Stage2Step /\ Current.name = mk_cmd)
            => /\ invoked' = Some(mk_cmd)
               /\ exec'.outputs = exec.outputs
               /\ pc' = "executing"
               /\ IsCmd(made_cmd)'
               /\ HasHandler(handlers', made_cmd)
        /\ (Stage2Step /\ Current.name = made_cmd /\ IsCmd(made_cmd))
            => invoked' = Some(made_cmd) ]_vars

(***************************************************************************)
(* Properties of the terminal backend (specification SpecTerminal)         *)
(***************************************************************************)
\* The lines of a sequence that are not blank, in order, without their
\* surrounding whitespace
RECURSIVE NonBlank(_)
NonBlank(ls) ==
    IF ls = <<>> THEN <<>>
    ELSE IF \A i \in 1..Len(Head(ls)) : IsWhitespace(Head(ls)[i])
         THEN NonBlank(Tail(ls))
         ELSE <<Trim(Head(ls))>> \o NonBlank(Tail(ls))

\* The lines Stage 1 has taken in, then the messages it has not read yet,
\* then the lines still in the channel
InFlight ==
    [i \in 1..Len(pending.queue) |-> pending.queue[i].raw]
        \o input_events \o channel

\* C33: the reader thread changes nothing but its stdin position and the
\* channel, never the Registry or the Handler Store; and at every moment the
\* lines taken in by Stage 1, followed by the unread ConsoleInputEvents and
\* the lines in the channel, are exactly the non-blank lines read so far, in
\* the order read: none lost, none duplicated.
C33_ReaderOnlyAppends ==
    /\ [](InFlight = NonBlank(lines_read))
    /\ [][ (stdin' # stdin)
            => /\ UNCHANGED <<registry, handlers, pending, input_events>>
               /\ \/ channel' = channel
                  \/ /\ Len(channel') = Len(channel) + 1
                     /\ SubSeq(channel', 1, Len(channel)) = channel ]_vars

\* Witness of C33: three lines were read, the blank one in the middle; the
\* first reached Stage 1 while the third was still in the channel.
C33_Witness ==
    /\ pc = "reading"
    /\ lines_read = << <<" ", "a", " ">>, <<" ">>, <<"b">> >>
    /\ Len(pending.queue) = 1
    /\ pending.queue[1].raw = <<"a">>
    /\ input_events = <<>>
    /\ channel = << <<"b">> >>

(***************************************************************************)
(* Order within a tick (specification Spec)                                *)
(***************************************************************************)
Tokenizes(sub) == tokenize(sub).ok

RawsOf(queue) == [i \in 1..Len(queue) |-> queue[i].raw]

IsPrefixOf(s, t) == Len(s) <= Len(t) /\ SubSeq(t, 1, Len(s)) = s

GatePassesNow(name) ==
    ~IsSome(check_access(registry, current_level, EntryOf(name).flags,
                         EntryOf(name).required_permission))

\* C34: Intake queues the sub-lines that tokenize in the order of the input
\* lines and of their `;`-separated sub-lines; Stage 2 takes that queue and
\* executes its head at every step, so in FIFO order; the Access Gate of a
\* step is evaluated on the registry and permission level as they are when
\* the step executes (a handler runs iff its gate passes then and a handler
\* is stored); and a step only appends to the tick's outputs, so they are in
\* invocation order.
C34_FifoWithinTick ==
    [][ /\ (pc = "idle" /\ pc' = "parsed")
            => RawsOf(pending'.queue) =
                   RawsOf(pending.queue)
                       \o SelectSeq(AllSubLines(input_events), Tokenizes)
        /\ (pc = "parsed" /\ pc' = "executing") => exec'.queue = pending.queue
        /\ Stage2Step
            => /\ exec'.queue = Tail(exec.queue)
               /\ IsPrefixOf(exec.outputs, exec'.outputs)
               /\ IsCmd(Current.name)
                   => (invoked' = Some(Current.name)
                          <=> (GatePassesNow(Current.name)
                                  /\ HasHandler(handlers, Current.name)))
               /\ (IsVar(Current.name) /\ registry' # registry)
                   => GatePassesNow(Current.name) ]_vars

\* Witness of C34: the single line `sv_cheats 1; god_mode` was submitted
\* while sv_cheats was 0 and god_mode is CHEAT-flagged; in the same tick the
\* variable was set and then god_mode's handler ran.
C34_Witness ==
    /\ pc = "executing"
    /\ sent = 1
    /\ EntryOf(god_mode).flags = {CHEAT}
    /\ invoked = Some(god_mode)
    /\ tracker.count = 1
    /\ exec.queue = <<>>
    /\ exec.outputs =
           << ConsoleOutputEvent("Command", MsgEcho(Line(<<sv_cheats, <<"1">>>>))),
              ConsoleOutputEvent("Command", MsgEcho(god_mode)),
              ConsoleOutputEvent("Result", MsgValue(sv_cheats, <<"1">>)) >>

(***************************************************************************)
(* Properties of the pending buffers (specification SpecScript)            *)
(***************************************************************************)
\* The output records and change notifications accumulated in the tick so
\* far: those in the pending buffers and those in Stage 2's local buffers
AccumulatedOutputs == Len(pending.outputs) + Len(exec.outputs)

AccumulatedChanges == Len(pending.changes) + Len(exec.changes)

\* C35: from Intake up to Emit no accumulated output record or change
\* notification is lost, whoever appended it (Intake, Stage 2, or a handler
\* appending to the pending buffers while it runs); Emit writes all of them
\* and leaves the pending output and change buffers empty and the
\* clear-request flag false.
C35_NothingLost ==
    [][ /\ (pc \in {"idle", "parsed", "executing"} /\ pc' # "exited")
            => /\ AccumulatedOutputs' >= AccumulatedOutputs
               /\ AccumulatedChanges' >= AccumulatedChanges
        /\ (pc = "executed" /\ pc' = "emitted")
            => /\ output_events' = pending.outputs
               /\ change_events' = pending.changes
               /\ pending'.outputs = <<>>
               /\ pending'.changes = <<>>
               /\ ~pending'.clear_console ]_vars

(***************************************************************************)
(* Properties of name resolution (specification SpecShadow)                *)
(***************************************************************************)
Registered(name) == name \in DOMAIN registry.entries

\* C36: a step whose name is registered never consults the alias table (no
\* expansion is queued, also when the name is an alias too, and the process
\* does not exit through the alias's target); a step whose name is neither
\* registered nor an alias appends exactly one Error output `Unknown command
\* or variable` and changes nothing else; only a name that is not registered
\* and is an alias queues an expansion.
C36_AliasLast ==
    [][ Stage2Step
        => /\ Registered(Current.name)
               => /\ pending'.queue = pending.queue
                  /\ pc' = "executing"
           /\ (~Registered(Current.name) /\ Current.name \notin DOMAIN aliases)
               => /\ ErrorAppended(MsgUnknown(Current.name))
                  /\ invoked' = None
                  /\ UNCHANGED <<registry, handlers, pending, tracker,
                                 current_level, aliases>>
                  /\ exec'.changes = exec.changes
           /\ (pending'.queue # pending.queue)
               => (~Registered(Current.name) /\ Current.name \in DOMAIN aliases) ]_vars

\* Witness of C36: in one tick god_mode, which is registered and also an
\* alias of quit, ran its handler, and then the unknown name got its error.
C36_Witness ==
    /\ pc = "executing"
    /\ god_mode \in DOMAIN aliases
    /\ tracker.count = 1
    /\ pending.queue = <<>>
    /\ exec.outputs # <<>>
    /\ exec.outputs[Len(exec.outputs)] =
           ConsoleOutputEvent("Error", MsgUnknown(<<"nope">>))

(***************************************************************************)
(* Properties of a self-expanding alias (specification SpecLoop)           *)
(***************************************************************************)
LoopsIn(queue) == Cardinality({i \in 1..Len(queue) : queue[i].name = loop})

LoopCount == LoopsIn(pending.queue) + LoopsIn(exec.queue)

LoopQueued == LoopCount > 0

ExpandingLoop == Stage2Step /\ Current.name = loop

\* C37: once the self-expanding alias has been queued it stays queued for
\* ever (the queues of pipeline and Stage 2 are never both free of it) and
\* it is expanded again and again, tick after tick; a Stage 2 step that
\* expands it appends exactly one invocation to the pending queue, for the
\* next tick, and none to the queue being executed, so the number of its
\* invocations does not grow; the queue being executed shrinks with every
\* step, each tick's Stage 2 finishes, and god_mode queued in the same tick
\* runs its handler.
C37_SelfAliasLoops ==
    /\ [][LoopQueued => LoopQueued']_vars
    /\ [][ Stage2Step
            => /\ exec'.queue = Tail(exec.queue)
               /\ LoopCount' = LoopCount
               /\ Current.name = loop
                   => /\ Len(pending'.queue) = Len(pending.queue) + 1
                      /\ pending'.queue[Len(pending'.queue)].name = loop
               /\ Current.name = god_mode => invoked' = Some(god_mode) ]_vars
    /\ [](LoopQueued => []<>ExpandingLoop)
    /\ (pc = "executing") ~> (pc = "executed")

\* Witness of C37: `loop; god_mode` was the only line submitted; in a later
\* tick, after god_mode ran once, the alias is about to be expanded again.
C37_Witness ==
    /\ sent = 1
    /\ tracker.count = 1
    /\ output_events = <<>>
    /\ ExpandingLoop
    /\ exec.outputs = <<>>

(***************************************************************************)
(* Properties of exec (specification SpecScript)                           *)
(***************************************************************************)
\* The lines of a script that exec does not skip
RECURSIVE ScriptInput(_)
ScriptInput(lines) ==
    IF lines = <<>> THEN <<>>
    ELSE (IF ExecSkipsLine(Trim(Head(lines))) THEN <<>> ELSE <<Head(lines)>>)
         \o ScriptInput(Tail(lines))

RunsScript ==
    /\ Stage2Step
    /\ Current.name = exec_cmd
    /\ Current.args # <<>>
    /\ Current.args[1] \in DOMAIN ScriptFiles

\* C38: when exec runs a script, its lines that are not skipped are handled
\* as Stage 1 handles input lines: each is split on unquoted `;`, every
\* sub-line is echoed as a Command output, a sub-line that fails to tokenize
\* gets an Error output after its echo, the other sub-lines are queued in
\* file order; and these outputs are still there when Stage 2 has stored its
\* buffers, so that Emit writes them.
C38_ExecLikeInput ==
    [][ /\ RunsScript
            => LET subs == AllSubLines(ScriptInput(ScriptFiles[Current.args[1]])) IN
               /\ pending'.queue = pending.queue \o IntakeQueue(subs)
               /\ pending'.outputs = pending.outputs \o IntakeOutputs(subs)
        /\ (pc = "executing" /\ pc' = "executed")
            => \A i \in 1..Len(pending.outputs) :
                   \E j \in 1..Len(pending'.outputs) :
                       pending'.outputs[j] = pending.outputs[i] ]_vars

(***************************************************************************)
(* No silent drop (specification SpecScript)                               *)
(***************************************************************************)
\* C39: every Stage 2 step leaves a trace of the invocation it took from the
\* queue: a handler was invoked, or an output record was appended, or an
\* alias expansion was queued; also for a command registered as metadata
\* without a handler, and for an alias whose expansion fails to tokenize.
C39_NoSilentDrop ==
    [][ Stage2Step
        => \/ invoked' = Some(Current.name)
           \/ Len(exec'.outputs) > Len(exec.outputs)
           \/ Len(pending'.queue) > Len(pending.queue) ]_vars

(***************************************************************************)
(* split_commands against tokenize_string (specification SpecText)         *)
(***************************************************************************)
\* Offset i lies inside a quoted token of s as tokenize_string delimits it
InQuotedToken(s, i) ==
    \E k \in 1..Len(Spans(s, 0)) :
        LET span == Spans(s, 0)[k] IN
        /\ span.quoted
        /\ span.open < i
        /\ (span.to < 0 \/ i < span.to)

\* C40: for every line, no `;` at which split_commands splits (C24: the
\* pieces are those cut at SplitPoints) lies inside a quoted token of
\* tokenize_string applied to the whole line; and if tokenize_string accepts
\* the whole line, it reports UnterminatedString for none of the pieces
\* split_commands returned.
C40_SplitAgreesWithTokenizer ==
    (pc = "text" /\ IsSplit) =>
        /\ Unwrap(ret).pieces = TrimmedNonEmpty(PiecesFrom(TextLine, 0))
        /\ \A i \in SplitPoints(TextLine) : ~InQuotedToken(TextLine, i)
        /\ tokenize_string(TextLine).ok
            => \A k \in 1..Len(Unwrap(ret).pieces) :
                   LET t == tokenize_string(Unwrap(ret).pieces[k]) IN
                   t.ok \/ t.err # "UnterminatedString"

====
